---------------------------- MODULE Spec2Model ----------------------------
(***************************************************************************)
(* Piece-geometry and assembly engine of the jigsaw puzzle (App screen):   *)
(* edge pattern generation, drag gestures, snap detection and merge        *)
(* validation, detach with connectivity re-evaluation, and win detection.  *)
(*                                                                         *)
(* Coordinates are pixels, kept as integers.  Arrays of the program are    *)
(* sequences here, so array index i of the program is index i + 1.         *)
(***************************************************************************)
EXTENDS Integers, Sequences, FiniteSets, TLC

VARIABLES
    status,        \* gameState.status
    pieces,        \* the pieces array (React state)
    drag,          \* dragRef.current
    isScattering,  \* scatter animation flag
    overlapGuard,  \* TRUE: the screen whose checkSnapping has the overlap guard
    moves,         \* pointer-move events that moved pieces so far (bounded)
    detaches,      \* detaches from a multi-piece group so far (bounded)
    game,          \* grid and Math.random() outcomes of the loaded image (environment)
    heal,          \* healPuzzle: which of its callbacks have run
    path,          \* the piece handed to renderPiecePath or renderPieceEdges and the commands issued
    hit,           \* the point handed to getPieceAtPosition and what it returned
    viewport,      \* window.innerWidth, window.innerHeight, the pending timer
                   \* of handleResize and the resize events so far (bounded)
    last           \* history: the last handler that changed something, what it
                   \* did, the array it handed to checkWinCondition, the ids
                   \* of the pieces of the group it released, and the target
                   \* piece and delta of the candidate it found

vars == <<status, pieces, drag, isScattering, overlapGuard,
          moves, detaches, game, heal, path, hit, viewport, last>>

---------------------------------------------------------------------------
(* Program constants *)

SNAP_DISTANCE == 20
VIEWPORT_MARGIN_X == 36
VIEWPORT_MARGIN_Y == 36
HEADER_RESERVED_SPACE == 80
\* tolerance of validateGroupMerge, arePiecesPhysicallyAdjacent, checkWinCondition
Epsilon == 5
\* offset by which a detached piece is nudged
DetachNudge == 20
\* padding of the scatter range in startGame
ScatterPadding == 20
\* stands for the constraints +-Infinity of the initial dragRef
Infinity == 1000000
\* null of pieceId / groupId
Null == -1

(* Environment: window and board geometry handed to the engine *)
WinW == 230
WinH == 300
PieceW == 30
PieceH == 30
OriginX == 34
OriginY == 104

Abs(n) == IF n < 0 THEN -n ELSE n
Max(a, b) == IF a > b THEN a ELSE b
Min(a, b) == IF a < b THEN a ELSE b

Point(px, py) == [x |-> px, y |-> py]

---------------------------------------------------------------------------
(* Edge pattern generator *)

\* a draw that yields a Tab or a Flat side
randomEdgeOrFlat(u) == IF u THEN 1 ELSE 0

\* randomEdge: Math.random() > 0.5 ? 1 : -1; u is the outcome of the comparison
randomEdge(u) == IF u THEN 1 ELSE -1

\* number of randomEdge() calls generatePieces makes
NumDraws(rows, cols) == rows * (cols - 1) + (rows - 1) * cols

\* The pre-calculation loop: cells are visited in row-major order (i is the
\* cell's index), k counts the draws made so far, rnd is the stream of
\* Math.random() outcomes.  acc holds vEdges and hEdges.
RECURSIVE PreCalcEdges(_, _, _, _, _, _)
PreCalcEdges(i, k, rows, cols, rnd, acc) ==
    IF i >= rows * cols THEN acc
    ELSE LET r == i \div cols
             c == i % cols
             kv == IF c < cols - 1 THEN k + 1 ELSE k
             kh == IF r < rows - 1 THEN kv + 1 ELSE kv
             v1 == IF c < cols - 1
                   THEN [acc.vEdges EXCEPT ![r][c + 1] = randomEdge(rnd[kv])]
                   ELSE acc.vEdges
             h1 == IF r < rows - 1
                   THEN [acc.hEdges EXCEPT ![r + 1][c] = randomEdge(rnd[kh])]
                   ELSE acc.hEdges
         IN  PreCalcEdges(i + 1, kh, rows, cols, rnd,
                          [vEdges |-> v1, hEdges |-> h1])

EdgeTables(rows, cols, rnd) ==
    PreCalcEdges(0, 0, rows, cols, rnd,
                 [vEdges |-> [r \in 0..(rows - 1) |-> [c \in 0..cols |-> 0]],
                  hEdges |-> [r \in 0..rows |-> [c \in 0..(cols - 1) |-> 0]]])

\* a generator that copies the neighbour's draw to the left side without
\* negating it
PieceShapeAtLeftCopied(r, c, rows, cols, e) ==
    [top    |-> IF r = 0 THEN 0 ELSE e.hEdges[r][c] * (-1),
     bottom |-> IF r = rows - 1 THEN 0 ELSE e.hEdges[r + 1][c],
     left   |-> IF c = 0 THEN 0 ELSE e.vEdges[r][c],
     right  |-> IF c = cols - 1 THEN 0 ELSE e.vEdges[r][c + 1]]

\* shape of the piece at (r, c): left/top negate the neighbour's shared draw
PieceShapeAt(r, c, rows, cols, e) ==
    [top    |-> IF r = 0 THEN 0 ELSE e.hEdges[r][c] * (-1),
     bottom |-> IF r = rows - 1 THEN 0 ELSE e.hEdges[r + 1][c],
     left   |-> IF c = 0 THEN 0 ELSE e.vEdges[r][c] * (-1),
     right  |-> IF c = cols - 1 THEN 0 ELSE e.vEdges[r][c + 1]]

\* newPieces of generatePieces(w, h, rows, cols, originX, originY); w, h are
\* multiples of cols, rows here so that pW, pH are whole pixels.  The push
\* reads idCounter for groupId after id: idCounter++ has incremented it.
NewPieces(w, h, rows, cols, originX, originY, rnd) ==
    LET pW == w \div cols
        pH == h \div rows
        e  == EdgeTables(rows, cols, rnd)
    IN  [i \in 1..(rows * cols) |->
            LET r == (i - 1) \div cols
                c == (i - 1) % cols
            IN  [id         |-> i - 1,
                 row        |-> r,
                 col        |-> c,
                 shape      |-> PieceShapeAt(r, c, rows, cols, e),
                 currentPos |-> Point(originX + c * pW, originY + r * pH),
                 solvedPos  |-> Point(originX + c * pW, originY + r * pH),
                 width      |-> pW,
                 height     |-> pH,
                 groupId    |-> i,
                 isSolved   |-> FALSE]]

\* a generator that hands out newPieces as pushed
generatePiecesUncorrected(w, h, rows, cols, originX, originY, rnd) ==
    NewPieces(w, h, rows, cols, originX, originY, rnd)

\* generatePieces: finalPieces = newPieces.map(p => ({...p, groupId: p.id}))
generatePieces(w, h, rows, cols, originX, originY, rnd) ==
    LET newPieces == NewPieces(w, h, rows, cols, originX, originY, rnd)
    IN  [i \in DOMAIN newPieces |->
            [newPieces[i] EXCEPT !.groupId = newPieces[i].id]]

---------------------------------------------------------------------------
(* Contour: utils/jigsawPath *)

\* The table of getTabPath is kept in hundredths (0.40 is 40), and so are the
\* coordinates of a contour: hundredths of a pixel.
Hundredth == 100

LineTo(pt) == [type |-> "L", pts |-> <<pt>>]

BezierCurveTo(cp1, cp2, end) == [type |-> "C", pts |-> <<cp1, cp2, end>>]

MoveTo(pt) == [type |-> "M", pts |-> <<pt>>]

\* closePath(): a straight line back to the point of the moveTo
ClosePath == [type |-> "Z", pts |-> <<Point(0, 0)>>]

\* a curve that bulges to the same side for a Slot as for a Tab
getTabPathOneSided(sign) ==
    LET h == -1
    IN  IF sign = 0 THEN <<LineTo(Point(100, 0))>>
        ELSE <<LineTo(Point(40, 0)),
               BezierCurveTo(Point(40, h * 20), Point(33, h * 50), Point(42, h * 90)),
               BezierCurveTo(Point(45, h * 120), Point(55, h * 120), Point(58, h * 90)),
               BezierCurveTo(Point(67, h * 50), Point(60, h * 20), Point(60, 0)),
               LineTo(Point(100, 0))>>

\* a tab whose dome reaches 1.6 tab sizes out of the side
getTabPathTall(sign) ==
    LET h == -sign
    IN  IF sign = 0 THEN <<LineTo(Point(100, 0))>>
        ELSE <<LineTo(Point(40, 0)),
               BezierCurveTo(Point(40, h * 20), Point(33, h * 50), Point(42, h * 90)),
               BezierCurveTo(Point(45, h * 160), Point(55, h * 160), Point(58, h * 90)),
               BezierCurveTo(Point(67, h * 50), Point(60, h * 20), Point(60, 0)),
               LineTo(Point(100, 0))>>

\* a tab that leans towards the end of the side
getTabPathLeaning(sign) ==
    LET h == -sign
    IN  IF sign = 0 THEN <<LineTo(Point(100, 0))>>
        ELSE <<LineTo(Point(40, 0)),
               BezierCurveTo(Point(40, h * 20), Point(33, h * 50), Point(42, h * 90)),
               BezierCurveTo(Point(45, h * 120), Point(55, h * 120), Point(62, h * 90)),
               BezierCurveTo(Point(71, h * 50), Point(64, h * 20), Point(64, 0)),
               LineTo(Point(100, 0))>>

\* getTabPath(sign): the side from 0 to 1 along the edge
getTabPath(sign) ==
    LET h == -sign
    IN  IF sign = 0 THEN <<LineTo(Point(100, 0))>>
        ELSE <<LineTo(Point(40, 0)),
               BezierCurveTo(Point(40, h * 20), Point(33, h * 50), Point(42, h * 90)),
               BezierCurveTo(Point(45, h * 120), Point(55, h * 120), Point(58, h * 90)),
               BezierCurveTo(Point(67, h * 50), Point(60, h * 20), Point(60, 0)),
               LineTo(Point(100, 0))>>

\* Math.cos and Math.sin of rot = quarter * PI / 2
Cos(quarter) == <<1, 0, -1, 0>>[quarter + 1]

Sin(quarter) == <<0, 1, 0, -1>>[quarter + 1]

\* a transform that scales the perpendicular offsets by the side length
executeOffsetByLength(cmds, len, quarter, offsetX, offsetY, tabSize) ==
    LET tx(pt) == Hundredth * offsetX + pt.x * len * Cos(quarter)
                                      - pt.y * len * Sin(quarter)
        ty(pt) == Hundredth * offsetY + pt.x * len * Sin(quarter)
                                      + pt.y * len * Cos(quarter)
    IN  [k \in DOMAIN cmds |->
            [type |-> cmds[k].type,
             pts  |-> [n \in DOMAIN cmds[k].pts |->
                          Point(tx(cmds[k].pts[n]), ty(cmds[k].pts[n]))]]]

\* execute(cmds, len, rot, offsetX, offsetY) of renderPiecePath: tx and ty
\* applied to every point of every command
execute(cmds, len, quarter, offsetX, offsetY, tabSize) ==
    LET tx(pt) == Hundredth * offsetX + pt.x * len * Cos(quarter)
                                      - pt.y * tabSize * Sin(quarter)
        ty(pt) == Hundredth * offsetY + pt.x * len * Sin(quarter)
                                      + pt.y * tabSize * Cos(quarter)
    IN  [k \in DOMAIN cmds |->
            [type |-> cmds[k].type,
             pts  |-> [n \in DOMAIN cmds[k].pts |->
                          Point(tx(cmds[k].pts[n]), ty(cmds[k].pts[n]))]]]

\* a renderer whose bottom side is drawn with the rotation of the top side
renderPiecePathBottomUnturned(width, height, shape, tabSize) ==
    <<MoveTo(Point(0, 0))>>
        \o execute(getTabPath(shape.top), width, 0, 0, 0, tabSize)
        \o execute(getTabPath(shape.right), height, 1, width, 0, tabSize)
        \o execute(getTabPath(shape.bottom), width, 0, width, height, tabSize)
        \o execute(getTabPath(shape.left), height, 3, 0, height, tabSize)
        \o <<ClosePath>>

\* renderPiecePath(ctx, width, height, shape, tabSize): the commands issued
\* to ctx, in order
renderPiecePath(width, height, shape, tabSize) ==
    <<MoveTo(Point(0, 0))>>
        \o execute(getTabPath(shape.top), width, 0, 0, 0, tabSize)
        \o execute(getTabPath(shape.right), height, 1, width, 0, tabSize)
        \o execute(getTabPath(shape.bottom), width, 2, width, height, tabSize)
        \o execute(getTabPath(shape.left), height, 3, 0, height, tabSize)
        \o <<ClosePath>>

\* the stroke of the path
Stroke == [type |-> "S", pts |-> << >>]

\* a stroke renderer that leaves the pen where it is at a connected side
renderPieceEdgesWithoutSkip(width, height, shape, tabSize, connected) ==
    <<MoveTo(Point(0, 0))>>
        \o (IF ~connected.top
                THEN execute(getTabPath(shape.top), width, 0, 0, 0, tabSize)
                ELSE << >>)
        \o (IF ~connected.right
                THEN execute(getTabPath(shape.right), height, 1, width, 0, tabSize)
                ELSE << >>)
        \o (IF ~connected.bottom
                THEN execute(getTabPath(shape.bottom), width, 2, width, height, tabSize)
                ELSE << >>)
        \o (IF ~connected.left
                THEN execute(getTabPath(shape.left), height, 3, 0, height, tabSize)
                ELSE << >>)
        \o <<Stroke>>

\* renderPieceEdges(ctx, width, height, shape, tabSize, connected): the
\* commands issued to ctx after beginPath(), in order; a connected side is a
\* move to the corner at which it ends, except the left side, which is nothing
renderPieceEdges(width, height, shape, tabSize, connected) ==
    <<MoveTo(Point(0, 0))>>
        \o (IF ~connected.top
                THEN execute(getTabPath(shape.top), width, 0, 0, 0, tabSize)
                ELSE <<MoveTo(Point(Hundredth * width, 0))>>)
        \o (IF ~connected.right
                THEN execute(getTabPath(shape.right), height, 1, width, 0, tabSize)
                ELSE <<MoveTo(Point(Hundredth * width, Hundredth * height))>>)
        \o (IF ~connected.bottom
                THEN execute(getTabPath(shape.bottom), width, 2, width, height, tabSize)
                ELSE <<MoveTo(Point(0, Hundredth * height))>>)
        \o (IF ~connected.left
                THEN execute(getTabPath(shape.left), height, 3, 0, height, tabSize)
                ELSE << >>)
        \o <<Stroke>>

\* no piece has been handed to the renderer
NoPath == [width |-> 0, height |-> 0,
           shape |-> [top |-> 0, right |-> 0, bottom |-> 0, left |-> 0],
           tabSize |-> 0, drawn |-> FALSE, cmds |-> << >>]

\* no point has been handed to the hit tester
NoHit == [tested |-> FALSE, at |-> Point(0, 0), id |-> Null]

\* the window the game is started in; no resize event is waiting
InitialViewport ==
    [innerWidth |-> WinW, innerHeight |-> WinH, resizeTimer |-> FALSE, resizes |-> 0]

\* the cleanup of the resize effect, which runs when gameState.status has
\* changed: the waiting timer of handleResize is cleared
EffectCleanup(nextStatus) ==
    IF nextStatus # status THEN [viewport EXCEPT !.resizeTimer = FALSE] ELSE viewport

---------------------------------------------------------------------------
(* Array helpers *)

PieceIds(ps) == {ps[i].id : i \in DOMAIN ps}

\* pieces.find(p => p.id === pieceId)
FindPiece(ps, pieceId) == ps[CHOOSE i \in DOMAIN ps : ps[i].id = pieceId]

\* pieces.filter(p => p.groupId === g), array order kept
GroupMembers(ps, g) == SelectSeq(ps, LAMBDA p : p.groupId = g)

\* pieces.filter(p => p.groupId !== g)
OtherPieces(ps, g) == SelectSeq(ps, LAMBDA p : p.groupId # g)

GroupIds(ps) == {ps[i].groupId : i \in DOMAIN ps}

\* the ids of the pieces of group g
DraggedIds(ps, g) == {ps[i].id : i \in {j \in DOMAIN ps : ps[j].groupId = g}}

SeqMax(S) == CHOOSE m \in S : \A n \in S : n <= m

---------------------------------------------------------------------------
(* startGame: scatter *)

\* the range startGame draws a piece's position from:
\* Math.max(padding, random * maxX), Math.max(padding + HEADER, random * maxY)
InScatterRange(pt, p) ==
    /\ pt.x >= ScatterPadding
    /\ pt.x <= Max(ScatterPadding, WinW - p.width - ScatterPadding)
    /\ pt.y >= ScatterPadding + HEADER_RESERVED_SPACE
    /\ pt.y <= Max(ScatterPadding + HEADER_RESERVED_SPACE,
                   WinH - p.height - ScatterPadding)

\* pieces.map(p => ({...p, currentPos: {bestX, bestY}, isSolved: false}))
scatter(ps, layout) ==
    [i \in DOMAIN ps |-> [ps[i] EXCEPT !.currentPos = layout[i],
                                       !.isSolved = FALSE]]

---------------------------------------------------------------------------
(* Hit tester *)

\* TAB_RATIO, in hundredths
TAB_RATIO == 25

\* getTabSize() for an image of imageW x imageH cut into rows x cols
getTabSize(imageW, imageH, rows, cols) ==
    IF imageW = 0 THEN 0
    ELSE (Min(imageW \div cols, imageH \div rows) * TAB_RATIO) \div Hundredth

Reverse(s) == [i \in DOMAIN s |-> s[Len(s) + 1 - i]]

\* the comparator of the sort of uniqueGroupIds; d is draggingGroupId
compareGroups(ps, d, a, b) ==
    LET aSolved == GroupMembers(ps, a)[1].isSolved
        bSolved == GroupMembers(ps, b)[1].isSolved
    IN  IF a = d THEN 1
        ELSE IF b = d THEN -1
        ELSE IF aSolved # bSolved THEN (IF aSolved THEN -1 ELSE 1)
        ELSE a - b

\* Array.sort of the group ids in S with compareGroups
RECURSIVE SortGroups(_, _, _)
SortGroups(ps, d, S) ==
    IF S = {} THEN << >>
    ELSE LET lowest == CHOOSE a \in S :
                           \A b \in S \ {a} : compareGroups(ps, d, a, b) < 0
         IN  <<lowest>> \o SortGroups(ps, d, S \ {lowest})

\* uniqueGroupIds: the render order, bottom to top
uniqueGroupIds(ps, d) == SortGroups(ps, d, GroupIds(ps))

\* the fast bounding-box check, margin = tabSize * 1.5 (compared doubled)
InInflatedBox(p, tabSize, boardX, boardY) ==
    ~ \/ 2 * boardX < 2 * p.currentPos.x - 3 * tabSize
      \/ 2 * boardX > 2 * (p.currentPos.x + p.width) + 3 * tabSize
      \/ 2 * boardY < 2 * p.currentPos.y - 3 * tabSize
      \/ 2 * boardY > 2 * (p.currentPos.y + p.height) + 3 * tabSize

\* The outline of a path as a closed polygon: a curve is flattened into the
\* two chords through its point at t = 1/2, which is
\* (p0 + 3 cp1 + 3 cp2 + p3) / 8; the vertices are kept multiplied by 8.
\* pen is where the previous command left the pen, in the unit of the path.
Eighth == 8

RECURSIVE Flatten(_, _, _, _)
Flatten(cmds, k, pen, acc) ==
    IF k > Len(cmds) THEN acc
    ELSE LET c   == cmds[k]
             end == c.pts[Len(c.pts)]
             scaled(pt) == Point(Eighth * pt.x, Eighth * pt.y)
             mid == Point(pen.x + 3 * c.pts[1].x + 3 * c.pts[2].x + c.pts[3].x,
                          pen.y + 3 * c.pts[1].y + 3 * c.pts[2].y + c.pts[3].y)
         IN  IF c.type = "C"
             THEN Flatten(cmds, k + 1, end, acc \o <<mid, scaled(end)>>)
             ELSE Flatten(cmds, k + 1, end, Append(acc, scaled(end)))

\* > 0 when pt lies to the left of the line from a to b
IsLeft(a, b, pt) ==
    (b.x - a.x) * (pt.y - a.y) - (pt.x - a.x) * (b.y - a.y)

\* the winding number of the polygon verts around pt
RECURSIVE Winding(_, _, _)
Winding(verts, i, pt) ==
    IF i >= Len(verts) THEN 0
    ELSE LET a == verts[i]
             b == verts[i + 1]
             turn == IF a.y <= pt.y
                     THEN (IF b.y > pt.y /\ IsLeft(a, b, pt) > 0 THEN 1 ELSE 0)
                     ELSE (IF b.y <= pt.y /\ IsLeft(a, b, pt) < 0 THEN -1 ELSE 0)
         IN  turn + Winding(verts, i + 1, pt)

\* ctx.isPointInPath(path, localX, localY): the non-zero winding rule; localX
\* and localY are pixels
isPointInPath(cmds, localX, localY) ==
    Winding(Flatten(cmds, 1, Point(0, 0), << >>), 1,
            Point(Eighth * Hundredth * localX, Eighth * Hundredth * localY)) # 0

\* the precise path check of piece p at the board point (boardX, boardY)
InContour(p, tabSize, boardX, boardY) ==
    isPointInPath(renderPiecePath(p.width, p.height, p.shape, tabSize),
                  boardX - p.currentPos.x, boardY - p.currentPos.y)

\* the pieces in the order the two loops examine them
RECURSIVE ExaminationOrder(_, _, _)
ExaminationOrder(ps, groupsReversed, k) ==
    IF k > Len(groupsReversed) THEN << >>
    ELSE Reverse(GroupMembers(ps, groupsReversed[k]))
             \o ExaminationOrder(ps, groupsReversed, k + 1)

\* return p.id at the first piece that passes both checks, null after the loops
RECURSIVE FirstHit(_, _, _, _, _)
FirstHit(examined, n, tabSize, boardX, boardY) ==
    IF n > Len(examined) THEN Null
    ELSE IF /\ InInflatedBox(examined[n], tabSize, boardX, boardY)
            /\ InContour(examined[n], tabSize, boardX, boardY)
         THEN examined[n].id
         ELSE FirstHit(examined, n + 1, tabSize, boardX, boardY)

\* a hit tester that walks the groups in render order, bottom group first
getPieceAtPositionBottomFirst(ps, d, tabSize, boardX, boardY) ==
    FirstHit(ExaminationOrder(ps, uniqueGroupIds(ps, d), 1), 1,
             tabSize, boardX, boardY)

\* getPieceAtPosition for the board point (boardX, boardY)
getPieceAtPosition(ps, d, tabSize, boardX, boardY) ==
    FirstHit(ExaminationOrder(ps, Reverse(uniqueGroupIds(ps, d)), 1), 1,
             tabSize, boardX, boardY)

---------------------------------------------------------------------------
(* Drag gestures *)

\* dragRef.current after a release (and, up to the constraints, initially)
IdleDrag ==
    [active        |-> FALSE,
     pieceId       |-> Null,
     groupId       |-> Null,
     startPointer  |-> Point(0, 0),
     startPiecePos |-> << >>,
     constraints   |-> [minDx |-> 0, maxDx |-> 0, minDy |-> 0, maxDy |-> 0]]

InitialDrag ==
    [IdleDrag EXCEPT !.constraints =
        [minDx |-> -Infinity, maxDx |-> Infinity,
         minDy |-> -Infinity, maxDy |-> Infinity]]

\* limits taken from the first member of the group alone
MoveConstraintsFirstMember(members, i, acc) ==
    LET p == members[1]
    IN  [minDx |-> -VIEWPORT_MARGIN_X - p.currentPos.x,
         maxDx |-> (viewport.innerWidth - p.width - VIEWPORT_MARGIN_X) - p.currentPos.x,
         minDy |-> (-VIEWPORT_MARGIN_Y + HEADER_RESERVED_SPACE) - p.currentPos.y,
         maxDy |-> (viewport.innerHeight - p.height - VIEWPORT_MARGIN_Y) - p.currentPos.y]

\* the forEach over groupMembers that intersects the per-member limits
RECURSIVE MoveConstraints(_, _, _)
MoveConstraints(members, i, acc) ==
    IF i > Len(members) THEN acc
    ELSE LET p == members[i]
             pMinDx == -VIEWPORT_MARGIN_X - p.currentPos.x
             pMaxDx == (viewport.innerWidth - p.width - VIEWPORT_MARGIN_X) - p.currentPos.x
             pMinDy == (-VIEWPORT_MARGIN_Y + HEADER_RESERVED_SPACE) - p.currentPos.y
             pMaxDy == (viewport.innerHeight - p.height - VIEWPORT_MARGIN_Y) - p.currentPos.y
         IN  MoveConstraints(members, i + 1,
                 [minDx |-> Max(acc.minDx, pMinDx),
                  maxDx |-> Min(acc.maxDx, pMaxDx),
                  minDy |-> Max(acc.minDy, pMinDy),
                  maxDy |-> Min(acc.maxDy, pMaxDy)])

\* dragRef.current as handlePointerDown sets it for a hit on pieceId at (cx, cy)
StartDrag(ps, pieceId, cx, cy) ==
    LET piece   == FindPiece(ps, pieceId)
        members == GroupMembers(ps, piece.groupId)
    IN  [active        |-> TRUE,
         pieceId       |-> pieceId,
         groupId       |-> piece.groupId,
         startPointer  |-> Point(cx, cy),
         startPiecePos |-> [id \in PieceIds(members) |->
                               FindPiece(members, id).currentPos],
         constraints   |-> MoveConstraints(members, 1,
                               [minDx |-> -Infinity, maxDx |-> Infinity,
                                minDy |-> -Infinity, maxDy |-> Infinity])]

\* a move handler that moves the pressed piece and leaves its group behind
MovePiecesPressedOnly(ps, d, cx, cy) ==
    LET dx0 == cx - d.startPointer.x
        dy0 == cy - d.startPointer.y
        dx  == Max(d.constraints.minDx, Min(dx0, d.constraints.maxDx))
        dy  == Max(d.constraints.minDy, Min(dy0, d.constraints.maxDy))
    IN  [i \in DOMAIN ps |->
            IF ps[i].id = d.pieceId
            THEN [ps[i] EXCEPT !.currentPos =
                     Point(d.startPiecePos[ps[i].id].x + dx,
                           d.startPiecePos[ps[i].id].y + dy)]
            ELSE ps[i]]

\* a move handler that adds the delta to where the pieces are
MovePiecesAccumulating(ps, d, cx, cy) ==
    LET dx0 == cx - d.startPointer.x
        dy0 == cy - d.startPointer.y
        dx  == Max(d.constraints.minDx, Min(dx0, d.constraints.maxDx))
        dy  == Max(d.constraints.minDy, Min(dy0, d.constraints.maxDy))
    IN  [i \in DOMAIN ps |->
            IF ps[i].groupId = d.groupId /\ ps[i].id \in DOMAIN d.startPiecePos
            THEN [ps[i] EXCEPT !.currentPos =
                     Point(ps[i].currentPos.x + dx, ps[i].currentPos.y + dy)]
            ELSE ps[i]]

\* the pieces after handlePointerMove with the pointer at (cx, cy)
MovePieces(ps, d, cx, cy) ==
    LET dx0 == cx - d.startPointer.x
        dy0 == cy - d.startPointer.y
        dx  == Max(d.constraints.minDx, Min(dx0, d.constraints.maxDx))
        dy  == Max(d.constraints.minDy, Min(dy0, d.constraints.maxDy))
    IN  [i \in DOMAIN ps |->
            IF ps[i].groupId = d.groupId /\ ps[i].id \in DOMAIN d.startPiecePos
            THEN [ps[i] EXCEPT !.currentPos =
                     Point(d.startPiecePos[ps[i].id].x + dx,
                           d.startPiecePos[ps[i].id].y + dy)]
            ELSE ps[i]]

---------------------------------------------------------------------------
(* Snap detector and merge validator *)

areEdgesCompatible(e1, e2) == e1 + e2 = 0

NoMerge == [found |-> FALSE, targetPieceId |-> Null, delta |-> Point(0, 0)]

\* the four direction tests of the candidate search for one pair, in the
\* order of the code; the first one that matches wins
SnapCandidate(activePiece, other) ==
    LET ax == activePiece.currentPos.x
        ay == activePiece.currentPos.y
        ox == other.currentPos.x
        oy == other.currentPos.y
        w  == activePiece.width
        h  == activePiece.height
    IN  IF /\ Abs((ax + w) - ox) < SNAP_DISTANCE
           /\ Abs(ay - oy) < SNAP_DISTANCE
           /\ areEdgesCompatible(activePiece.shape.right, other.shape.left)
        THEN [found |-> TRUE, targetPieceId |-> other.id,
              delta |-> Point(ox - w - ax, oy - ay)]
        ELSE IF /\ Abs(ax - (ox + w)) < SNAP_DISTANCE
                /\ Abs(ay - oy) < SNAP_DISTANCE
                /\ areEdgesCompatible(activePiece.shape.left, other.shape.right)
        THEN [found |-> TRUE, targetPieceId |-> other.id,
              delta |-> Point(ox + w - ax, oy - ay)]
        ELSE IF /\ Abs(ax - ox) < SNAP_DISTANCE
                /\ Abs((ay + h) - oy) < SNAP_DISTANCE
                /\ areEdgesCompatible(activePiece.shape.bottom, other.shape.top)
        THEN [found |-> TRUE, targetPieceId |-> other.id,
              delta |-> Point(ox - ax, oy - h - ay)]
        ELSE IF /\ Abs(ax - ox) < SNAP_DISTANCE
                /\ Abs(ay - (oy + h)) < SNAP_DISTANCE
                /\ areEdgesCompatible(activePiece.shape.top, other.shape.bottom)
        THEN [found |-> TRUE, targetPieceId |-> other.id,
              delta |-> Point(ox - ax, oy + h - ay)]
        ELSE NoMerge

\* an inner loop that keeps the last match instead of breaking at the first
RECURSIVE ScanOthersKeepingLast(_, _, _)
ScanOthersKeepingLast(activePiece, others, j) ==
    IF j > Len(others) THEN NoMerge
    ELSE LET c    == SnapCandidate(activePiece, others[j])
             rest == ScanOthersKeepingLast(activePiece, others, j + 1)
         IN  IF rest.found THEN rest ELSE c

\* inner loop: for (const other of others), break at the first match
RECURSIVE ScanOthers(_, _, _)
ScanOthers(activePiece, others, j) ==
    IF j > Len(others) THEN NoMerge
    ELSE LET c == SnapCandidate(activePiece, others[j])
         IN  IF c.found THEN c ELSE ScanOthers(activePiece, others, j + 1)

\* outer loop: for (const activePiece of activeGroup), break once bestMerge is set
RECURSIVE FindBestMerge(_, _, _)
FindBestMerge(activeGroup, others, i) ==
    IF i > Len(activeGroup) THEN NoMerge
    ELSE LET c == ScanOthers(activeGroup[i], others, 1)
         IN  IF c.found THEN c ELSE FindBestMerge(activeGroup, others, i + 1)

\* a validator that accepts every proposed merge
validateGroupMergeAccepting(activeGroup, targetGroup, delta) ==
    TRUE

\* a validator that looks at the first piece of the dragged group only
validateGroupMergeFirstPiece(activeGroup, targetGroup, delta) ==
    \A j \in DOMAIN targetGroup :
        LET activePiece == activeGroup[1]
            targetPiece == targetGroup[j]
            proposedX == activePiece.currentPos.x + delta.x
            proposedY == activePiece.currentPos.y + delta.y
            w  == activePiece.width
            h  == activePiece.height
            tx == targetPiece.currentPos.x
            ty == targetPiece.currentPos.y
        IN  /\ (Abs((proposedX + w) - tx) < Epsilon /\ Abs(proposedY - ty) < Epsilon)
                => areEdgesCompatible(activePiece.shape.right, targetPiece.shape.left)
            /\ (Abs(proposedX - (tx + w)) < Epsilon /\ Abs(proposedY - ty) < Epsilon)
                => areEdgesCompatible(activePiece.shape.left, targetPiece.shape.right)
            /\ (Abs(proposedX - tx) < Epsilon /\ Abs((proposedY + h) - ty) < Epsilon)
                => areEdgesCompatible(activePiece.shape.bottom, targetPiece.shape.top)
            /\ (Abs(proposedX - tx) < Epsilon /\ Abs(proposedY - (ty + h)) < Epsilon)
                => areEdgesCompatible(activePiece.shape.top, targetPiece.shape.bottom)

\* validateGroupMerge: false as soon as one pair that touches after the move
\* (within epsilon) has incompatible facing edges
validateGroupMerge(activeGroup, targetGroup, delta) ==
    \A i \in DOMAIN activeGroup : \A j \in DOMAIN targetGroup :
        LET activePiece == activeGroup[i]
            targetPiece == targetGroup[j]
            proposedX == activePiece.currentPos.x + delta.x
            proposedY == activePiece.currentPos.y + delta.y
            w  == activePiece.width
            h  == activePiece.height
            tx == targetPiece.currentPos.x
            ty == targetPiece.currentPos.y
        IN  /\ (Abs((proposedX + w) - tx) < Epsilon /\ Abs(proposedY - ty) < Epsilon)
                => areEdgesCompatible(activePiece.shape.right, targetPiece.shape.left)
            /\ (Abs(proposedX - (tx + w)) < Epsilon /\ Abs(proposedY - ty) < Epsilon)
                => areEdgesCompatible(activePiece.shape.left, targetPiece.shape.right)
            /\ (Abs(proposedX - tx) < Epsilon /\ Abs((proposedY + h) - ty) < Epsilon)
                => areEdgesCompatible(activePiece.shape.bottom, targetPiece.shape.top)
            /\ (Abs(proposedX - tx) < Epsilon /\ Abs(proposedY - (ty + h)) < Epsilon)
                => areEdgesCompatible(activePiece.shape.top, targetPiece.shape.bottom)

\* an overlap test that never finds an overlap
hasOverlapNever(activeGroup, others) ==
    FALSE

\* the overlap test of the guarded screen's checkSnapping
hasOverlap(activeGroup, others) ==
    \E i \in DOMAIN activeGroup : \E j \in DOMAIN others :
        LET activePiece == activeGroup[i]
            otherPiece  == others[j]
        IN  /\ activePiece.currentPos.x < otherPiece.currentPos.x + otherPiece.width
            /\ activePiece.currentPos.x + activePiece.width > otherPiece.currentPos.x
            /\ activePiece.currentPos.y < otherPiece.currentPos.y + otherPiece.height
            /\ activePiece.currentPos.y + activePiece.height > otherPiece.currentPos.y

\* a merge that renames the dragged group and leaves it where it was dropped
ApplyMergeUntranslated(ps, activeGroupId, targetGroupId, delta) ==
    [i \in DOMAIN ps |->
        IF ps[i].groupId = activeGroupId
        THEN [ps[i] EXCEPT !.groupId = targetGroupId]
        ELSE ps[i]]

\* a merge that also takes every other group into the target group
ApplyMergeJoiningAll(ps, activeGroupId, targetGroupId, delta) ==
    [i \in DOMAIN ps |->
        IF ps[i].groupId = activeGroupId
        THEN [ps[i] EXCEPT !.groupId = targetGroupId,
                           !.currentPos = Point(ps[i].currentPos.x + delta.x,
                                                ps[i].currentPos.y + delta.y)]
        ELSE [ps[i] EXCEPT !.groupId = targetGroupId]]

\* nextPieces of checkSnapping: the dragged group takes the target's id and
\* is translated by delta
ApplyMerge(ps, activeGroupId, targetGroupId, delta) ==
    [i \in DOMAIN ps |->
        IF ps[i].groupId = activeGroupId
        THEN [ps[i] EXCEPT !.groupId = targetGroupId,
                           !.currentPos = Point(ps[i].currentPos.x + delta.x,
                                                ps[i].currentPos.y + delta.y)]
        ELSE ps[i]]

---------------------------------------------------------------------------
(* Win evaluator *)

\* a win check that does not compare the arrangement with the solved one
isCorrectUnchecked(ps) ==
    TRUE

\* isCorrect of checkWinCondition: one group, and every piece at the anchor's
\* offset from its solved position, within tolerance
isCorrect(ps) ==
    LET anchor  == ps[1]
        offsetX == anchor.currentPos.x - anchor.solvedPos.x
        offsetY == anchor.currentPos.y - anchor.solvedPos.y
    IN  \A i \in DOMAIN ps :
            /\ Abs(ps[i].currentPos.x - (ps[i].solvedPos.x + offsetX)) < Epsilon
            /\ Abs(ps[i].currentPos.y - (ps[i].solvedPos.y + offsetY)) < Epsilon

\* a win check that detects the assembled puzzle on the board only
WinDetectedOnBoard(ps) ==
    /\ Cardinality(GroupIds(ps)) = 1
    /\ isCorrect(ps)
    /\ ps[1].currentPos = ps[1].solvedPos

WinDetected(ps) == Cardinality(GroupIds(ps)) = 1 /\ isCorrect(ps)

\* a distance test that takes exactly SNAP_DISTANCE for near
NearBoardInclusive(ps) ==
    LET offsetX == ps[1].currentPos.x - ps[1].solvedPos.x
        offsetY == ps[1].currentPos.y - ps[1].solvedPos.y
    IN  offsetX * offsetX + offsetY * offsetY <= SNAP_DISTANCE * SNAP_DISTANCE

\* Math.hypot(offsetX, offsetY) < SNAP_DISTANCE, compared on the squares
NearBoard(ps) ==
    LET offsetX == ps[1].currentPos.x - ps[1].solvedPos.x
        offsetY == ps[1].currentPos.y - ps[1].solvedPos.y
    IN  offsetX * offsetX + offsetY * offsetY < SNAP_DISTANCE * SNAP_DISTANCE

\* an update that moves the pieces half of the way to the board
MarkSolvedHalfway(ps) ==
    IF NearBoard(ps)
    THEN [i \in DOMAIN ps |->
            [ps[i] EXCEPT !.currentPos =
                              Point((ps[i].currentPos.x + ps[i].solvedPos.x) \div 2,
                                    (ps[i].currentPos.y + ps[i].solvedPos.y) \div 2),
                          !.isSolved = TRUE]]
    ELSE [i \in DOMAIN ps |-> [ps[i] EXCEPT !.isSolved = TRUE]]

\* an update that marks the anchor piece only
MarkSolvedAnchorOnly(ps) ==
    IF NearBoard(ps)
    THEN [i \in DOMAIN ps |-> [ps[i] EXCEPT !.currentPos = ps[i].solvedPos,
                                            !.isSolved = (i = 1)]]
    ELSE [i \in DOMAIN ps |-> [ps[i] EXCEPT !.isSolved = (i = 1)]]

\* an update that takes the place where the puzzle was assembled for solved
MarkSolvedRebasing(ps) ==
    [i \in DOMAIN ps |-> [ps[i] EXCEPT !.solvedPos = ps[i].currentPos,
                                       !.isSolved = TRUE]]

\* the setPieces update checkWinCondition queues when the puzzle is correct
MarkSolved(ps) ==
    IF NearBoard(ps)
    THEN [i \in DOMAIN ps |-> [ps[i] EXCEPT !.currentPos = ps[i].solvedPos,
                                            !.isSolved = TRUE]]
    ELSE [i \in DOMAIN ps |-> [ps[i] EXCEPT !.isSolved = TRUE]]

\* a win check that finds nothing to do
checkWinConditionSilent(ps, st) ==
    [pieces |-> ps, status |-> st, won |-> FALSE]

\* checkWinCondition(currentPieces): the pieces and the status it leaves
checkWinCondition(ps, st) ==
    IF WinDetected(ps)
    THEN [pieces |-> MarkSolved(ps), status |-> "won", won |-> TRUE]
    ELSE [pieces |-> ps, status |-> st, won |-> FALSE]

\* a snap evaluation that goes on to the next candidate pair when the
\* validator rejects one
checkSnappingTryingNext(ps, st, activeGroupId, guarded) ==
    LET activeGroup == GroupMembers(ps, activeGroupId)
        others      == OtherPieces(ps, activeGroupId)
        first       == FindBestMerge(activeGroup, others, 1)
        targetOf(c) == GroupMembers(ps, FindPiece(ps, c.targetPieceId).groupId)
        valid       == {c \in (DOMAIN activeGroup) \X (DOMAIN others) :
                           LET m == SnapCandidate(activeGroup[c[1]], others[c[2]])
                           IN  m.found /\ validateGroupMerge(activeGroup, targetOf(m),
                                                             m.delta)}
        next        == CHOOSE c \in valid :
                           \A e \in valid : \/ c[1] < e[1]
                                            \/ c[1] = e[1] /\ c[2] <= e[2]
        bestMerge   == IF valid = {} THEN first
                       ELSE SnapCandidate(activeGroup[next[1]], others[next[2]])
        targetGroupId == FindPiece(ps, bestMerge.targetPieceId).groupId
        targetGroup == GroupMembers(ps, targetGroupId)
        nextPieces  == ApplyMerge(ps, activeGroupId, targetGroupId, bestMerge.delta)
        win         == checkWinCondition(nextPieces, st)
    IN  IF activeGroupId = Null
        THEN [pieces |-> ps, status |-> st, outcome |-> "null", checked |-> << >>,
              best |-> NoMerge]
        ELSE IF guarded /\ hasOverlap(activeGroup, others)
        THEN [pieces |-> ps, status |-> st, outcome |-> "overlap", checked |-> << >>,
              best |-> NoMerge]
        ELSE IF ~bestMerge.found
        THEN [pieces |-> ps, status |-> st, outcome |-> "none", checked |-> << >>,
              best |-> NoMerge]
        ELSE IF ~validateGroupMerge(activeGroup, targetGroup, bestMerge.delta)
        THEN [pieces |-> ps, status |-> st, outcome |-> "rejected", checked |-> << >>,
              best |-> bestMerge]
        ELSE [pieces |-> win.pieces, status |-> win.status,
              outcome |-> IF win.won THEN "won" ELSE "merged",
              checked |-> nextPieces, best |-> bestMerge]

\* checkSnapping(activeGroupId) on pieces ps: the resulting pieces and status,
\* and which path was taken
checkSnapping(ps, st, activeGroupId, guarded) ==
    LET activeGroup == GroupMembers(ps, activeGroupId)
        others      == OtherPieces(ps, activeGroupId)
        bestMerge   == FindBestMerge(activeGroup, others, 1)
        targetGroupId == FindPiece(ps, bestMerge.targetPieceId).groupId
        targetGroup == GroupMembers(ps, targetGroupId)
        nextPieces  == ApplyMerge(ps, activeGroupId, targetGroupId, bestMerge.delta)
        win         == checkWinCondition(nextPieces, st)
    IN  IF activeGroupId = Null
        THEN [pieces |-> ps, status |-> st, outcome |-> "null", checked |-> << >>,
              best |-> NoMerge]
        ELSE IF guarded /\ hasOverlap(activeGroup, others)
        THEN [pieces |-> ps, status |-> st, outcome |-> "overlap", checked |-> << >>,
              best |-> NoMerge]
        ELSE IF ~bestMerge.found
        THEN [pieces |-> ps, status |-> st, outcome |-> "none", checked |-> << >>,
              best |-> NoMerge]
        ELSE IF ~validateGroupMerge(activeGroup, targetGroup, bestMerge.delta)
        THEN [pieces |-> ps, status |-> st, outcome |-> "rejected", checked |-> << >>,
              best |-> bestMerge]
        ELSE [pieces |-> win.pieces, status |-> win.status,
              outcome |-> IF win.won THEN "won" ELSE "merged",
              checked |-> nextPieces, best |-> bestMerge]

---------------------------------------------------------------------------
(* Detach: split with connectivity re-evaluation *)

\* an adjacency test that takes any two pieces for neighbours
arePiecesPhysicallyAdjacentAnywhere(p1, p2) ==
    TRUE

arePiecesPhysicallyAdjacent(p1, p2) ==
    LET dx == p1.currentPos.x - p2.currentPos.x
        dy == p1.currentPos.y - p2.currentPos.y
        w  == p1.width
        h  == p1.height
    IN  \/ (Abs(p1.currentPos.x + w - p2.currentPos.x) < Epsilon /\ Abs(dy) < Epsilon)
        \/ (Abs(p2.currentPos.x + w - p1.currentPos.x) < Epsilon /\ Abs(dy) < Epsilon)
        \/ (Abs(dx) < Epsilon /\ Abs(p1.currentPos.y + h - p2.currentPos.y) < Epsilon)
        \/ (Abs(dx) < Epsilon /\ Abs(p2.currentPos.y + h - p1.currentPos.y) < Epsilon)

\* the while loop of the breadth-first scan: queue and cluster are sequences
\* of pieces, visited is the set of visited ids
RECURSIVE BfsCluster(_, _, _, _)
BfsCluster(queue, visited, cluster, remainingMembers) ==
    IF Len(queue) = 0 THEN [cluster |-> cluster, visited |-> visited]
    ELSE LET current   == Head(queue)
             neighbors == SelectSeq(remainingMembers,
                              LAMBDA n : /\ n.id \notin visited
                                         /\ arePiecesPhysicallyAdjacent(current, n))
         IN  BfsCluster(Tail(queue) \o neighbors,
                        visited \cup PieceIds(neighbors),
                        Append(cluster, current),
                        remainingMembers)

\* a detach without connectivity re-evaluation: the remainder is one cluster
FindClustersUnsplit(remainingMembers, k, visited, clusters) ==
    <<remainingMembers>>

\* the for loop over remainingMembers that collects the clusters, in order
RECURSIVE FindClusters(_, _, _, _)
FindClusters(remainingMembers, k, visited, clusters) ==
    IF k > Len(remainingMembers) THEN clusters
    ELSE LET member == remainingMembers[k]
         IN  IF member.id \in visited
             THEN FindClusters(remainingMembers, k + 1, visited, clusters)
             ELSE LET b == BfsCluster(<<member>>, visited \cup {member.id},
                                      << >>, remainingMembers)
                  IN  FindClusters(remainingMembers, k + 1, b.visited,
                                   Append(clusters, b.cluster))

\* clusters.findIndex(c => c.some(cp => cp.id === id)), as an array index
ClusterIndex(clusters, id) ==
    (CHOOSE k \in DOMAIN clusters :
        /\ id \in PieceIds(clusters[k])
        /\ \A m \in DOMAIN clusters : id \in PieceIds(clusters[m]) => k <= m) - 1

\* a detach whose first extra cluster takes the id given to the detached piece
detachPieceSharedId(prev, pieceId) ==
    LET piece        == FindPiece(prev, pieceId)
        oldGroupId   == piece.groupId
        groupMembers == GroupMembers(prev, oldGroupId)
        newDetachedGroupId == SeqMax(GroupIds(prev)) + 1
        nextGroupId  == newDetachedGroupId
        updatedPieces ==
            [i \in DOMAIN prev |->
                IF prev[i].id = pieceId
                THEN [prev[i] EXCEPT
                        !.groupId = newDetachedGroupId,
                        !.currentPos = Point(prev[i].currentPos.x + DetachNudge,
                                             prev[i].currentPos.y + DetachNudge),
                        !.isSolved = FALSE]
                ELSE prev[i]]
        remainingMembers == GroupMembers(updatedPieces, oldGroupId)
        clusters == FindClusters(remainingMembers, 1, {}, << >>)
    IN  IF Len(groupMembers) <= 1 THEN prev
        ELSE IF Len(remainingMembers) = 0 THEN updatedPieces
        ELSE IF Len(clusters) > 1
        THEN [i \in DOMAIN updatedPieces |->
                LET p == updatedPieces[i]
                IN  IF p.groupId # oldGroupId THEN p
                    ELSE IF ClusterIndex(clusters, p.id) > 0
                    THEN [p EXCEPT
                            !.groupId = nextGroupId + ClusterIndex(clusters, p.id) - 1,
                            !.isSolved = FALSE]
                    ELSE [p EXCEPT !.isSolved = FALSE]]
        ELSE [i \in DOMAIN updatedPieces |->
                IF updatedPieces[i].groupId = oldGroupId
                THEN [updatedPieces[i] EXCEPT !.isSolved = FALSE]
                ELSE updatedPieces[i]]

\* a detach that clears isSolved on the detached piece only
detachPieceKeepsSolved(prev, pieceId) ==
    LET piece        == FindPiece(prev, pieceId)
        oldGroupId   == piece.groupId
        groupMembers == GroupMembers(prev, oldGroupId)
        newDetachedGroupId == SeqMax(GroupIds(prev)) + 1
        nextGroupId  == newDetachedGroupId + 1
        updatedPieces ==
            [i \in DOMAIN prev |->
                IF prev[i].id = pieceId
                THEN [prev[i] EXCEPT
                        !.groupId = newDetachedGroupId,
                        !.currentPos = Point(prev[i].currentPos.x + DetachNudge,
                                             prev[i].currentPos.y + DetachNudge),
                        !.isSolved = FALSE]
                ELSE prev[i]]
        remainingMembers == GroupMembers(updatedPieces, oldGroupId)
        clusters == FindClusters(remainingMembers, 1, {}, << >>)
    IN  IF Len(groupMembers) <= 1 THEN prev
        ELSE IF Len(remainingMembers) = 0 THEN updatedPieces
        ELSE IF Len(clusters) > 1
        THEN [i \in DOMAIN updatedPieces |->
                LET p == updatedPieces[i]
                IN  IF p.groupId # oldGroupId THEN p
                    ELSE IF ClusterIndex(clusters, p.id) > 0
                    THEN [p EXCEPT
                            !.groupId = nextGroupId + ClusterIndex(clusters, p.id) - 1]
                    ELSE p]
        ELSE updatedPieces

\* the setPieces update of handleDoubleClick for a hit on pieceId
detachPiece(prev, pieceId) ==
    LET piece        == FindPiece(prev, pieceId)
        oldGroupId   == piece.groupId
        groupMembers == GroupMembers(prev, oldGroupId)
        newDetachedGroupId == SeqMax(GroupIds(prev)) + 1
        nextGroupId  == newDetachedGroupId + 1
        updatedPieces ==
            [i \in DOMAIN prev |->
                IF prev[i].id = pieceId
                THEN [prev[i] EXCEPT
                        !.groupId = newDetachedGroupId,
                        !.currentPos = Point(prev[i].currentPos.x + DetachNudge,
                                             prev[i].currentPos.y + DetachNudge),
                        !.isSolved = FALSE]
                ELSE prev[i]]
        remainingMembers == GroupMembers(updatedPieces, oldGroupId)
        clusters == FindClusters(remainingMembers, 1, {}, << >>)
    IN  IF Len(groupMembers) <= 1 THEN prev
        ELSE IF Len(remainingMembers) = 0 THEN updatedPieces
        ELSE IF Len(clusters) > 1
        THEN [i \in DOMAIN updatedPieces |->
                LET p == updatedPieces[i]
                IN  IF p.groupId # oldGroupId THEN p
                    ELSE IF ClusterIndex(clusters, p.id) > 0
                    THEN [p EXCEPT
                            !.groupId = nextGroupId + ClusterIndex(clusters, p.id) - 1,
                            !.isSolved = FALSE]
                    ELSE [p EXCEPT !.isSolved = FALSE]]
        ELSE [i \in DOMAIN updatedPieces |->
                IF updatedPieces[i].groupId = oldGroupId
                THEN [updatedPieces[i] EXCEPT !.isSolved = FALSE]
                ELSE updatedPieces[i]]

---------------------------------------------------------------------------
(* Bounds of the model *)

\* pointer-move events of a run that move pieces
MaxMoves == 1
\* detaches of a run that split a group
MaxDetaches == 1

T == TRUE
F == FALSE

\* The games that are started: grid, the stream of Math.random() > 0.5
\* outcomes handed to generatePieces, where the scatter puts each piece
\* (offsets from the board origin, in array order), and the screen the game is
\* played on: the one whose checkSnapping has the overlap guard, or the other.
\*   2x2: the pieces lie 10 px apart around their solved arrangement.
\*   1x4: two columns of two, 10 px apart vertically, the columns far apart.
\*   2x2: the two rows 10 px apart inside, the top row scattered 30 px below
\*        the bottom row.
\*   1x4: two columns of two again, the right-hand one 15 px off the rows at
\*        which a pointer-move puts a dragged piece.
StartedGames ==
    {[rows |-> 2, cols |-> 2, rnd |-> <<T, T, T, T>>,
      at |-> <<<<10, 10>>, <<50, 10>>, <<10, 50>>, <<50, 50>>>>,
      guard |-> TRUE],
     [rows |-> 1, cols |-> 4, rnd |-> <<T, T, F>>,
      at |-> <<<<10, 10>>, <<10, 50>>, <<90, 10>>, <<90, 50>>>>,
      guard |-> FALSE],
     [rows |-> 2, cols |-> 2, rnd |-> <<T, F, F, T>>,
      at |-> <<<<10, 110>>, <<50, 110>>, <<-10, 50>>, <<30, 50>>>>,
      guard |-> FALSE],
     [rows |-> 1, cols |-> 4, rnd |-> <<T, T, F>>,
      at |-> <<<<-10, 90>>, <<-10, 130>>, <<70, 25>>, <<70, 65>>>>,
      guard |-> TRUE]}

LayoutOf(started) ==
    [i \in DOMAIN started.at |->
        Point(OriginX + started.at[i][1], OriginY + started.at[i][2])]

\* client coordinates of pointer-move events
PointerXs == {OriginX - 20 + 15, OriginX + 30 + 15, OriginX + 50 + 15}
PointerYs == {OriginY + 10 + 15}

---------------------------------------------------------------------------
(* State machine of a started game *)

Playable == status \in {"playing", "won"}

\* the history record of a handler that is not a release
Step(op, outcome) ==
    [op |-> op, outcome |-> outcome, checked |-> << >>, dragged |-> {},
     target |-> Null, delta |-> Point(0, 0)]

\* the point of a piece the pointer presses: the centre of its bounding box,
\* which lies inside every contour
HitPoint(p) == Point(p.currentPos.x + p.width \div 2,
                     p.currentPos.y + p.height \div 2)

\* generatePieces, then startGame
Init ==
    \E started \in StartedGames :
        LET generated == generatePieces(started.cols * PieceW, started.rows * PieceH,
                                        started.rows, started.cols, OriginX, OriginY,
                                        started.rnd)
            layout == LayoutOf(started)
        IN  /\ \A i \in DOMAIN generated : InScatterRange(layout[i], generated[i])
            /\ pieces = scatter(generated, layout)
            /\ status = "playing"
            /\ isScattering = TRUE
            /\ drag = InitialDrag
            /\ overlapGuard = started.guard
            /\ moves = 0
            /\ detaches = 0
            /\ game = [rows |-> started.rows, cols |-> started.cols,
                        rnd |-> started.rnd]
            /\ heal = "idle"
            /\ path = NoPath
            /\ hit = NoHit
            /\ viewport = InitialViewport
            /\ last = Step("start", "scattered")

\* setTimeout(() => setIsScattering(false), 1000) of startGame; it fires once,
\* and is still to come when an auto-complete raises the flag again ("Early")
ScatterDone ==
    /\ isScattering
    /\ heal \in {"idle", "clicked", "animatingEarly", "settledEarly"}
    /\ isScattering' = FALSE
    /\ heal' = CASE heal = "animatingEarly" -> "animating"
                 [] heal = "settledEarly" -> "settled"
                 [] OTHER -> heal
    /\ last' = Step("timer", "scatterDone")
    /\ UNCHANGED <<status, pieces, drag, overlapGuard, moves, detaches, game, path, hit, viewport>>

\* handlePointerDown, the hit tester resolving the pointer to pieceId
PointerDown(pieceId) ==
    /\ ~isScattering
    /\ Playable
    /\ pieceId \in PieceIds(pieces)
    /\ LET at == HitPoint(FindPiece(pieces, pieceId))
       IN  drag' = StartDrag(pieces, pieceId, at.x, at.y)
    /\ last' = Step("down", "drag")
    /\ UNCHANGED <<status, pieces, isScattering, overlapGuard, moves, detaches, game, heal, path, hit, viewport>>

\* handlePointerDown returning early: scatter animation running, or no piece
\* under the pointer
PointerDownIgnored ==
    UNCHANGED vars

\* handlePointerMove with the pointer at client coordinates (cx, cy)
PointerMove(cx, cy) ==
    /\ drag.active
    /\ moves < MaxMoves
    /\ pieces' = MovePieces(pieces, drag, cx, cy)
    /\ moves' = moves + 1
    /\ last' = Step("move", "moved")
    /\ UNCHANGED <<status, drag, isScattering, overlapGuard, detaches, game, heal, path, hit, viewport>>

\* handlePointerMove returning early: no active drag
PointerMoveIgnored ==
    /\ ~drag.active
    /\ UNCHANGED vars

\* a release handler that evaluates the snap and leaves the drag active
HandlePointerUpStaysActive(event) ==
    /\ IF drag.active
       THEN LET r == checkSnapping(pieces, status, drag.groupId, overlapGuard)
            IN  /\ pieces' = r.pieces
                /\ status' = r.status
                /\ drag' = drag
                /\ last' = [op |-> event, outcome |-> r.outcome,
                             checked |-> r.checked,
                             dragged |-> DraggedIds(pieces, drag.groupId),
                             target |-> r.best.targetPieceId,
                             delta |-> r.best.delta]
       ELSE UNCHANGED <<pieces, status, drag, last>>
    /\ viewport' = EffectCleanup(status')
    /\ UNCHANGED <<isScattering, overlapGuard, moves, detaches, game, heal, path, hit>>

\* handlePointerUp, which is bound to onPointerUp and to onPointerLeave
HandlePointerUp(event) ==
    /\ IF drag.active
       THEN LET r == checkSnapping(pieces, status, drag.groupId, overlapGuard)
            IN  /\ pieces' = r.pieces
                /\ status' = r.status
                /\ drag' = IdleDrag
                /\ last' = [op |-> event, outcome |-> r.outcome,
                             checked |-> r.checked,
                             dragged |-> DraggedIds(pieces, drag.groupId),
                             target |-> r.best.targetPieceId,
                             delta |-> r.best.delta]
       ELSE UNCHANGED <<pieces, status, drag, last>>
    /\ viewport' = EffectCleanup(status')
    /\ UNCHANGED <<isScattering, overlapGuard, moves, detaches, game, heal, path, hit>>

PointerUp == HandlePointerUp("up")

PointerLeave == HandlePointerUp("leave")

\* a detach handler that does not put a won game back to 'playing'
DoubleClickKeepsStatus(pieceId) ==
    /\ Playable
    /\ pieceId \in PieceIds(pieces)
    /\ LET split == Len(GroupMembers(pieces, FindPiece(pieces, pieceId).groupId)) > 1
       IN  /\ split => detaches < MaxDetaches
           /\ detaches' = IF split THEN detaches + 1 ELSE detaches
           /\ last' = Step("detach", IF split THEN "detached" ELSE "alone")
    /\ status' = status
    /\ pieces' = detachPiece(pieces, pieceId)
    /\ viewport' = EffectCleanup(status')
    /\ UNCHANGED <<drag, isScattering, overlapGuard, moves, game, heal, path, hit>>

\* handleDoubleClick, the hit tester resolving the pointer to pieceId
DoubleClick(pieceId) ==
    /\ Playable
    /\ pieceId \in PieceIds(pieces)
    /\ LET split == Len(GroupMembers(pieces, FindPiece(pieces, pieceId).groupId)) > 1
       IN  /\ split => detaches < MaxDetaches
           /\ detaches' = IF split THEN detaches + 1 ELSE detaches
           /\ last' = Step("detach", IF split THEN "detached" ELSE "alone")
    /\ status' = "playing"
    /\ pieces' = detachPiece(pieces, pieceId)
    /\ viewport' = EffectCleanup(status')
    /\ UNCHANGED <<drag, isScattering, overlapGuard, moves, game, heal, path, hit>>

\* handleDoubleClick with no piece under the pointer
DoubleClickIgnored ==
    UNCHANGED vars

Next ==
    \/ ScatterDone
    \/ \E pieceId \in PieceIds(pieces) : PointerDown(pieceId)
    \/ PointerDownIgnored
    \/ \E cx \in PointerXs, cy \in PointerYs : PointerMove(cx, cy)
    \/ PointerMoveIgnored
    \/ PointerUp
    \/ PointerLeave
    \/ \E pieceId \in PieceIds(pieces) : DoubleClick(pieceId)
    \/ DoubleClickIgnored

Spec == Init /\ [][Next]_vars

---------------------------------------------------------------------------
(* Auto-complete: healPuzzle and its timers, at most once in a run *)

\* the first setPieces update of healPuzzle
unifyGroups(prevPieces) ==
    [i \in DOMAIN prevPieces |->
        [prevPieces[i] EXCEPT !.groupId = prevPieces[1].groupId]]

\* the setPieces update of healPuzzle's 50 ms timer
moveToSolved(prevPieces) ==
    [i \in DOMAIN prevPieces |->
        [prevPieces[i] EXCEPT !.currentPos = prevPieces[i].solvedPos,
                              !.isSolved = TRUE]]

\* healPuzzle: the click on the button, which unifies the groups
HealClick ==
    /\ Playable
    /\ heal = "idle"
    /\ pieces' = unifyGroups(pieces)
    /\ heal' = "clicked"
    /\ last' = Step("heal", "unified")
    /\ UNCHANGED <<status, drag, isScattering, overlapGuard, moves, detaches, game, path, hit, viewport>>

\* setTimeout(..., 0) of healPuzzle
HealAnimationStart ==
    /\ heal = "clicked"
    /\ isScattering' = TRUE
    /\ heal' = IF isScattering THEN "animatingEarly" ELSE "animating"
    /\ last' = Step("healTimer", "animating")
    /\ UNCHANGED <<status, pieces, drag, overlapGuard, moves, detaches, game, path, hit, viewport>>

\* setTimeout(..., 50) inside it: every piece to its solved position
HealSettle ==
    /\ heal \in {"animating", "animatingEarly"}
    /\ pieces' = moveToSolved(pieces)
    /\ status' = "won"
    /\ heal' = IF heal = "animating" THEN "settled" ELSE "settledEarly"
    /\ last' = Step("healTimer", "healed")
    /\ viewport' = EffectCleanup(status')
    /\ UNCHANGED <<drag, isScattering, overlapGuard, moves, detaches, game, path, hit>>

\* setTimeout(..., animationDuration) inside it, animationDuration being at
\* least the delay of startGame's timer
HealAnimationEnd ==
    /\ heal = "settled"
    /\ isScattering' = FALSE
    /\ heal' = "done"
    /\ last' = Step("healTimer", "animationEnd")
    /\ UNCHANGED <<status, pieces, drag, overlapGuard, moves, detaches, game, path, hit, viewport>>

\* the auto-complete interleaved with presses, releases where the piece was
\* pressed, and double-clicks
NextHeal ==
    \/ ScatterDone
    \/ \E pieceId \in PieceIds(pieces) : PointerDown(pieceId)
    \/ PointerUp
    \/ PointerLeave
    \/ \E pieceId \in PieceIds(pieces) : DoubleClick(pieceId)
    \/ HealClick
    \/ HealAnimationStart
    \/ HealSettle
    \/ HealAnimationEnd

SpecHeal == Init /\ [][NextHeal]_vars

---------------------------------------------------------------------------
(* Resize: boundary recovery *)

\* the setPieces update of ensurePiecesInsideBounds in a window of winW by
\* winH: every piece is brought inside the bounds on its own
ensurePiecesInsideBounds(prev, winW, winH) ==
    [i \in DOMAIN prev |->
        LET p    == prev[i]
            minX == -VIEWPORT_MARGIN_X
            maxX == winW - p.width - VIEWPORT_MARGIN_X
            minY == -VIEWPORT_MARGIN_Y + HEADER_RESERVED_SPACE
            maxY == winH - p.height - VIEWPORT_MARGIN_Y
            x1   == IF p.currentPos.x < minX THEN minX ELSE p.currentPos.x
            newX == IF x1 > maxX THEN Max(minX, maxX) ELSE x1
            y1   == IF p.currentPos.y < minY THEN minY ELSE p.currentPos.y
            newY == IF y1 > maxY THEN Max(minY, maxY) ELSE y1
        IN  [p EXCEPT !.currentPos = Point(newX, newY)]]

\* resize events of a game
MaxResizes == 1

\* the sizes the window is resized to
ResizeWidths == {WinW, 150}
ResizeHeights == {WinH, 200}

\* handleResize on a resize event that leaves the window winW by winH: the
\* waiting timer is replaced by a new one
WindowResize(winW, winH) ==
    /\ viewport.resizes < MaxResizes
    /\ viewport' = [innerWidth |-> winW, innerHeight |-> winH,
                    resizeTimer |-> TRUE, resizes |-> viewport.resizes + 1]
    /\ last' = Step("resize", "scheduled")
    /\ UNCHANGED <<status, pieces, drag, isScattering, overlapGuard, moves,
                   detaches, game, heal, path, hit>>

\* setTimeout(ensurePiecesInsideBounds, 100) firing
ResizeTimer ==
    /\ viewport.resizeTimer
    /\ viewport' = [viewport EXCEPT !.resizeTimer = FALSE]
    /\ IF status # "playing" /\ status # "won"
       THEN /\ pieces' = pieces
            /\ last' = Step("resizeTimer", "ignored")
       ELSE /\ pieces' = ensurePiecesInsideBounds(pieces, viewport.innerWidth,
                                                  viewport.innerHeight)
            /\ last' = Step("resizeTimer", "recovered")
    /\ UNCHANGED <<status, drag, isScattering, overlapGuard, moves, detaches,
                   game, heal, path, hit>>

\* play without pointer-moves, with the window resized
NextResize ==
    \/ ScatterDone
    \/ \E pieceId \in PieceIds(pieces) : PointerDown(pieceId)
    \/ PointerUp
    \/ PointerLeave
    \/ \E pieceId \in PieceIds(pieces) : DoubleClick(pieceId)
    \/ \E winW \in ResizeWidths, winH \in ResizeHeights : WindowResize(winW, winH)
    \/ ResizeTimer

SpecResize == Init /\ [][NextResize]_vars

---------------------------------------------------------------------------
(* Drags of several pointer-moves *)

\* pointer-move events that move pieces in one game of these drags
MaxDragMoves == 2

\* pointer positions of the moves: beyond each of the four sides of the
\* window, and at a height inside it
DragXs == {-60, WinW + 60}
DragYs == {-60, OriginY + 10 + 15, WinH + 60}

\* handlePointerMove with the pointer at client coordinates (cx, cy)
DragMove(cx, cy) ==
    /\ drag.active
    /\ moves < MaxDragMoves
    /\ pieces' = MovePieces(pieces, drag, cx, cy)
    /\ moves' = moves + 1
    /\ last' = Step("move", "moved")
    /\ UNCHANGED <<status, drag, isScattering, overlapGuard, detaches, game, heal, path, hit, viewport>>

\* presses, pointer-moves and double-clicks; no release
NextDrag ==
    \/ \E pieceId \in PieceIds(pieces) : PointerDown(pieceId)
    \/ \E cx \in DragXs, cy \in DragYs : DragMove(cx, cy)
    \/ \E pieceId \in PieceIds(pieces) : DoubleClick(pieceId)

\* a press on pieceId and a release on the spot, on board b of the screen of
\* src/App.tsx
Released(b, pieceId) ==
    LET groupId == FindPiece(b.pieces, pieceId).groupId
        r == checkSnapping(b.pieces, b.status, groupId, FALSE)
    IN  [pieces |-> r.pieces,
         status |-> r.status,
         game   |-> b.game,
         last   |-> [op |-> "up", outcome |-> r.outcome, checked |-> r.checked,
                     dragged |-> DraggedIds(b.pieces, groupId),
                     target |-> r.best.targetPieceId,
                     delta |-> r.best.delta]]

\* the started 2x2 games after one such release
DragBoards ==
    LET Scattered(started) ==
            [pieces |-> scatter(generatePieces(started.cols * PieceW,
                                               started.rows * PieceH,
                                               started.rows, started.cols,
                                               OriginX, OriginY, started.rnd),
                                LayoutOf(started)),
             status |-> "playing",
             game   |-> [rows |-> started.rows, cols |-> started.cols,
                         rnd |-> started.rnd],
             last   |-> Step("start", "scattered")]
        After(B) == {Released(b, pieceId) : b \in B, pieceId \in 0..3}
    IN  After({Scattered(started) : started \in {g \in StartedGames : g.rows = 2}})

\* a started game in which pieces have been pressed and released on the spot
InitDrag ==
    /\ viewport = InitialViewport
    /\ \E board \in DragBoards :
        /\ pieces = board.pieces
        /\ status = board.status
        /\ last = board.last
        /\ game = board.game
    /\ overlapGuard = FALSE
    /\ isScattering = FALSE
    /\ drag = IdleDrag
    /\ moves = 0
    /\ detaches = 0
    /\ heal = "idle"
    /\ path = NoPath
    /\ hit = NoHit

SpecDrag == InitDrag /\ [][NextDrag]_vars

---------------------------------------------------------------------------
(* Image load: generatePieces on every grid and every outcome of the draws *)

\* largest number of rows, and of columns, of a generated grid
MaxGrid == 3

GridInputs ==
    UNION {{[rows |-> r, cols |-> c, rnd |-> d] :
                d \in [1..NumDraws(r, c) -> BOOLEAN]} :
           r \in 1..MaxGrid, c \in 1..MaxGrid}

\* the app before img.onload of loadImage has run
InitGen ==
    /\ game \in GridInputs
    /\ overlapGuard \in BOOLEAN
    /\ status = "idle"
    /\ pieces = << >>
    /\ isScattering = FALSE
    /\ drag = InitialDrag
    /\ moves = 0
    /\ detaches = 0
    /\ heal = "idle"
    /\ path = NoPath
    /\ hit = NoHit
    /\ viewport = InitialViewport
    /\ last = Step("init", "idle")

\* img.onload of loadImage: status 'preview', then generatePieces
ImageLoaded ==
    /\ status = "idle"
    /\ status' = "preview"
    /\ pieces' = generatePieces(game.cols * PieceW, game.rows * PieceH,
                                game.rows, game.cols, OriginX, OriginY, game.rnd)
    /\ last' = Step("load", "generated")
    /\ UNCHANGED <<drag, isScattering, overlapGuard, moves, detaches, game, heal, path, hit, viewport>>

NextGen == ImageLoaded

SpecGen == InitGen /\ [][NextGen]_vars

---------------------------------------------------------------------------
(* Rendering: renderPiecePath on every size, shape and tab size *)

\* widths and heights of the piece rectangle, in pixels
PathLengths == {20, 30, 40}

\* tab sizes in pixels; getTabSize gives 0 before an image is loaded
TabSizes == {0, 5, 10}

EdgeTypes == {-1, 0, 1}

\* a piece is about to be drawn
InitPath ==
    /\ path \in [width : PathLengths, height : PathLengths,
                  shape : [top : EdgeTypes, right : EdgeTypes,
                           bottom : EdgeTypes, left : EdgeTypes],
                  tabSize : TabSizes, drawn : {FALSE}, cmds : {<< >>}]
    /\ status = "preview"
    /\ pieces = << >>
    /\ isScattering = FALSE
    /\ drag = InitialDrag
    /\ overlapGuard \in BOOLEAN
    /\ moves = 0
    /\ detaches = 0
    /\ game = [rows |-> 1, cols |-> 1, rnd |-> << >>]
    /\ heal = "idle"
    /\ hit = NoHit
    /\ viewport = InitialViewport
    /\ last = Step("init", "idle")

\* createJigsawPath / the draw of JigsawPiece: renderPiecePath on the piece
RenderPiece ==
    /\ ~path.drawn
    /\ path' = [path EXCEPT !.drawn = TRUE,
                            !.cmds = renderPiecePath(path.width, path.height,
                                                     path.shape, path.tabSize)]
    /\ last' = Step("render", "drawn")
    /\ UNCHANGED <<status, pieces, drag, isScattering, overlapGuard, moves,
                   detaches, game, heal, hit, viewport>>

NextPath == RenderPiece

SpecPath == InitPath /\ [][NextPath]_vars

---------------------------------------------------------------------------
(* Rendering: renderPieceEdges on every size, shape, tab size and flags *)

\* connectedSides of the piece: which sides have a piece of the same group
\* lying against them
ConnectedSides == [top : BOOLEAN, right : BOOLEAN, bottom : BOOLEAN, left : BOOLEAN]

\* the border of a piece is about to be stroked
InitEdges ==
    /\ path \in [width : PathLengths, height : PathLengths,
                  shape : [top : EdgeTypes, right : EdgeTypes,
                           bottom : EdgeTypes, left : EdgeTypes],
                  tabSize : TabSizes, connected : ConnectedSides,
                  drawn : {FALSE}, cmds : {<< >>}]
    /\ status = "playing"
    /\ pieces = << >>
    /\ isScattering = FALSE
    /\ drag = InitialDrag
    /\ overlapGuard = FALSE
    /\ moves = 0
    /\ detaches = 0
    /\ game = [rows |-> 1, cols |-> 1, rnd |-> << >>]
    /\ heal = "idle"
    /\ hit = NoHit
    /\ viewport = InitialViewport
    /\ last = Step("init", "idle")

\* the draw of JigsawPiece, second part: renderPieceEdges on the piece
StrokeEdges ==
    /\ ~path.drawn
    /\ path' = [path EXCEPT !.drawn = TRUE,
                            !.cmds = renderPieceEdges(path.width, path.height,
                                                      path.shape, path.tabSize,
                                                      path.connected)]
    /\ last' = Step("stroke", "drawn")
    /\ UNCHANGED <<status, pieces, drag, isScattering, overlapGuard, moves,
                   detaches, game, heal, hit, viewport>>

NextEdges == StrokeEdges

SpecEdges == InitEdges /\ [][NextEdges]_vars

---------------------------------------------------------------------------
(* Degenerate configurations: the 1x1 grid, and contours of every tab size *)

\* the app before the image of a 1x1 puzzle is loaded, and a piece rectangle
\* about to be drawn
InitDegenerate ==
    /\ game = [rows |-> 1, cols |-> 1, rnd |-> << >>]
    /\ path \in [width : PathLengths, height : PathLengths,
                  shape : [top : EdgeTypes, right : EdgeTypes,
                           bottom : EdgeTypes, left : EdgeTypes],
                  tabSize : TabSizes, drawn : {FALSE}, cmds : {<< >>}]
    /\ overlapGuard = FALSE
    /\ status = "idle"
    /\ pieces = << >>
    /\ isScattering = FALSE
    /\ drag = InitialDrag
    /\ moves = 0
    /\ detaches = 0
    /\ heal = "idle"
    /\ hit = NoHit
    /\ viewport = InitialViewport
    /\ last = Step("init", "idle")

NextDegenerate == ImageLoaded \/ RenderPiece

SpecDegenerate == InitDegenerate /\ [][NextDegenerate]_vars

---------------------------------------------------------------------------
(* Hit testing: getPieceAtPosition on boards of a 2x2 game *)

\* side of a piece of the game that is hit-tested
HitPieceSize == 40

HitGenerated ==
    generatePieces(2 * HitPieceSize, 2 * HitPieceSize, 2, 2, OriginX, OriginY,
                   <<T, T, T, T>>)

\* where startGame puts the pieces: 10 px apart around the board
HitLayout ==
    <<Point(OriginX, OriginY), Point(OriginX + 50, OriginY),
      Point(OriginX, OriginY + 50), Point(OriginX + 50, OriginY + 50)>>

\* The boards on which the hit tester is applied, each the outcome of the
\* handlers named:
\*   started    startGame
\*   healed     the auto-complete, run to its end
\*   lifted     then a double-click on piece 0, which lands on its neighbours
\*   raced      the auto-complete with a double-click on piece 0 between the
\*              click and the 50 ms timer: four solved groups on the board
\*   rejoined   then piece 0 pressed and released where it lies: it joins piece 1
\*   split      then a double-click on piece 1: pieces 0 and 1 are unsolved,
\*              pieces 2 and 3 solved
\*   dropped    then piece 0 dragged by (10, 25) onto pieces 2 and 3 and released
\*   unified    startGame, piece 0 dragged by (30, 30) onto the others and
\*              released, then the click on the auto-complete button, its
\*              timers still to come
HitBoards(guarded) ==
    LET started  == scatter(HitGenerated, HitLayout)
        healed   == moveToSolved(unifyGroups(started))
        lifted   == detachPiece(healed, 0)
        raced    == moveToSolved(detachPiece(unifyGroups(started), 0))
        rejoined == checkSnapping(raced, "won", FindPiece(raced, 0).groupId,
                                  guarded).pieces
        split    == detachPiece(rejoined, 1)
        at       == HitPoint(FindPiece(split, 0))
        moved    == MovePieces(split, StartDrag(split, 0, at.x, at.y),
                               at.x + 10, at.y + 25)
        dropped  == checkSnapping(moved, "playing", FindPiece(moved, 0).groupId,
                                  guarded).pieces
        from     == HitPoint(FindPiece(started, 0))
        stacked  == MovePieces(started, StartDrag(started, 0, from.x, from.y),
                               from.x + 30, from.y + 30)
        unified  == unifyGroups(checkSnapping(stacked, "playing",
                                              FindPiece(stacked, 0).groupId,
                                              guarded).pieces)
    IN  {[pieces |-> started,  status |-> "playing", heal |-> "idle",
          moves |-> 0, detaches |-> 0],
         [pieces |-> healed,   status |-> "won",     heal |-> "done",
          moves |-> 0, detaches |-> 0],
         [pieces |-> lifted,   status |-> "playing", heal |-> "done",
          moves |-> 0, detaches |-> 1],
         [pieces |-> raced,    status |-> "won",     heal |-> "done",
          moves |-> 0, detaches |-> 1],
         [pieces |-> rejoined, status |-> "won",     heal |-> "done",
          moves |-> 0, detaches |-> 1],
         [pieces |-> split,    status |-> "playing", heal |-> "done",
          moves |-> 0, detaches |-> 2],
         [pieces |-> dropped,  status |-> "playing", heal |-> "done",
          moves |-> 1, detaches |-> 2],
         [pieces |-> unified,  status |-> "playing", heal |-> "clicked",
          moves |-> 1, detaches |-> 0]}

\* board coordinates of the points handed to the hit tester; none lies on a
\* side of a bounding box
HitXs == {OriginX + 5, OriginX + 12, OriginX + 26, OriginX + 45,
          OriginX + 56, OriginX + 70}
HitYs == {OriginY + 5, OriginY + 21, OriginY + 31, OriginY + 45,
          OriginY + 56, OriginY + 70}

\* draggingGroupId, which is set and cleared together with dragRef
draggingGroupId == IF drag.active THEN drag.groupId ELSE Null

\* a board, with no piece pressed or with one of its pieces pressed
InitHit ==
    /\ viewport = InitialViewport
    /\ \E guarded \in BOOLEAN :
       \E board \in HitBoards(guarded) :
       \E pressed \in PieceIds(board.pieces) \cup {Null} :
        /\ pieces = board.pieces
        /\ status = board.status
        /\ heal = board.heal
        /\ moves = board.moves
        /\ detaches = board.detaches
        /\ overlapGuard = guarded
        /\ isScattering = FALSE
        /\ drag = IF pressed = Null THEN IdleDrag
                  ELSE LET at == HitPoint(FindPiece(board.pieces, pressed))
                       IN  StartDrag(board.pieces, pressed, at.x, at.y)
        /\ game = [rows |-> 2, cols |-> 2, rnd |-> <<T, T, T, T>>]
        /\ path = NoPath
        /\ hit = NoHit
        /\ last = Step("init", "board")

\* getPieceAtPosition(clientX, clientY), as handlePointerDown and
\* handleDoubleClick call it; one point is tested on a board
HitTest(boardX, boardY) ==
    LET tabSize == getTabSize(game.cols * pieces[1].width,
                              game.rows * pieces[1].height, game.rows, game.cols)
        id == getPieceAtPosition(pieces, draggingGroupId, tabSize, boardX, boardY)
    IN  /\ ~hit.tested
        /\ hit' = [tested |-> TRUE, at |-> Point(boardX, boardY), id |-> id]
        /\ last' = Step("hitTest", IF id = Null THEN "none" ELSE "hit")
        /\ UNCHANGED <<status, pieces, drag, isScattering, overlapGuard, moves,
                       detaches, game, heal, path, viewport>>

NextHit == \E boardX \in HitXs, boardY \in HitYs : HitTest(boardX, boardY)

SpecHit == InitHit /\ [][NextHit]_vars

---------------------------------------------------------------------------
(* Properties of the edge pattern generator *)

GridNeighboursComplementary(ps) ==
    \A i, j \in DOMAIN ps :
        /\ (ps[i].row = ps[j].row /\ ps[j].col = ps[i].col + 1)
              => ps[i].shape.right + ps[j].shape.left = 0
        /\ (ps[i].col = ps[j].col /\ ps[j].row = ps[i].row + 1)
              => ps[i].shape.bottom + ps[j].shape.top = 0

BorderSidesFlat(ps, rows, cols) ==
    \A i \in DOMAIN ps :
        /\ ps[i].row = 0 => ps[i].shape.top = 0
        /\ ps[i].row = rows - 1 => ps[i].shape.bottom = 0
        /\ ps[i].col = 0 => ps[i].shape.left = 0
        /\ ps[i].col = cols - 1 => ps[i].shape.right = 0

OnePiecePerCell(ps, rows, cols) ==
    /\ Len(ps) = rows * cols
    /\ \A r \in 0..(rows - 1), c \in 0..(cols - 1) :
          \E i \in DOMAIN ps : ps[i].row = r /\ ps[i].col = c

\* C4: for every grid of rows >= 1, cols >= 1 and every outcome of the draws,
\* generatePieces yields rows*cols pieces, one per cell, whose shared sides
\* (right/left of horizontal neighbours, bottom/top of vertical neighbours)
\* sum to zero and whose border-facing sides are Flat.
C4_EdgeComplementarity ==
    status = "preview" =>
        /\ OnePiecePerCell(pieces, game.rows, game.cols)
        /\ GridNeighboursComplementary(pieces)
        /\ BorderSidesFlat(pieces, game.rows, game.cols)

\* a generated 3 x 3 grid that carries a Tab and a Slot on right-hand sides
C4_Witness ==
    /\ status = "preview"
    /\ game.rows = 3 /\ game.cols = 3
    /\ \E i, j \in DOMAIN pieces :
          pieces[i].shape.right = 1 /\ pieces[j].shape.right = -1

\* C18: right after generation there are rows*cols pieces; the piece at array
\* position i has id i (0-based), lies in row i div cols, column i mod cols,
\* is a group of its own with groupId = id, is not solved, and has currentPos
\* = solvedPos = boardOrigin + (col * width, row * height).
C18_FreshPieces ==
    status = "preview" =>
        /\ Len(pieces) = game.rows * game.cols
        /\ \A i \in DOMAIN pieces :
              LET p == pieces[i]
              IN  /\ p.id = i - 1
                  /\ p.id = p.row * game.cols + p.col
                  /\ p.row \in 0..(game.rows - 1)
                  /\ p.col \in 0..(game.cols - 1)
                  /\ p.groupId = p.id
                  /\ \A j \in DOMAIN pieces \ {i} : pieces[j].groupId # p.groupId
                  /\ ~p.isSolved
                  /\ p.solvedPos = Point(OriginX + p.col * p.width,
                                         OriginY + p.row * p.height)
                  /\ p.currentPos = p.solvedPos

\* a generated grid of 2 rows and 3 columns, whose fourth piece opens the
\* second row
C18_Witness ==
    /\ status = "preview"
    /\ game.rows = 2 /\ game.cols = 3
    /\ pieces[4].id = 3 /\ pieces[4].row = 1 /\ pieces[4].col = 0
    /\ pieces[4].groupId = 3

---------------------------------------------------------------------------
(* Properties of the group engine *)

\* p's right side lies against q's left side, within tol
FlushRightLeft(p, q, tol) ==
    /\ Abs((p.currentPos.x + p.width) - q.currentPos.x) < tol
    /\ Abs(p.currentPos.y - q.currentPos.y) < tol

\* p's bottom side lies against q's top side, within tol
FlushBottomTop(p, q, tol) ==
    /\ Abs(p.currentPos.x - q.currentPos.x) < tol
    /\ Abs((p.currentPos.y + p.height) - q.currentPos.y) < tol

\* the sides on which p and q face each other do not sum to zero
FacingEdgesClash(p, q) ==
    \/ FlushRightLeft(p, q, Epsilon) /\ p.shape.right + q.shape.left # 0
    \/ FlushRightLeft(q, p, Epsilon) /\ q.shape.right + p.shape.left # 0
    \/ FlushBottomTop(p, q, Epsilon) /\ p.shape.bottom + q.shape.top # 0
    \/ FlushBottomTop(q, p, Epsilon) /\ q.shape.bottom + p.shape.top # 0

Translated(p, delta) ==
    [p EXCEPT !.currentPos = Point(p.currentPos.x + delta.x,
                                   p.currentPos.y + delta.y)]

\* a step that releases the active drag (handlePointerUp with an active drag)
Release == drag.active /\ ~drag'.active

\* a release that merged the dragged group into another one
MergeStep == Release /\ last'.outcome \in {"merged", "won"}

\* a pointer-move that moved a group of more than one piece
GroupMoveStep ==
    /\ drag.active /\ drag' = drag
    /\ last'.op = "move"
    /\ Len(GroupMembers(pieces, drag.groupId)) > 1

SameGroupsAndPositions(ps, qs) ==
    \A i \in DOMAIN ps :
        /\ qs[i].groupId = ps[i].groupId
        /\ qs[i].currentPos = ps[i].currentPos

\* C1: in every state reached by pointer-down, pointer-move, release and
\* detach, two pieces of one group that lie flush side to side (within the
\* 5-pixel tolerance) have facing edge types that sum to zero.
C1_JoinedPairsCompatible ==
    \A i, j \in DOMAIN pieces :
        (i # j /\ pieces[i].groupId = pieces[j].groupId)
            => ~FacingEdgesClash(pieces[i], pieces[j])

\* a merge has joined a Tab to a Slot
C1_Witness ==
    /\ last.outcome = "merged"
    /\ \E i, j \in DOMAIN pieces :
          /\ pieces[i].groupId = pieces[j].groupId
          /\ FlushRightLeft(pieces[i], pieces[j], Epsilon)
          /\ pieces[i].shape.right # 0
          /\ pieces[i].shape.right + pieces[j].shape.left = 0

\* the proposal of the snap detector clashes somewhere on the boundary between
\* the dragged group, moved by the proposed delta, and the target group
ProposalClashes(ps, activeGroupId) ==
    LET proposal == FindBestMerge(GroupMembers(ps, activeGroupId),
                                  OtherPieces(ps, activeGroupId), 1)
    IN  /\ proposal.found
        /\ \E i, j \in DOMAIN ps :
              /\ ps[i].groupId = activeGroupId
              /\ ps[j].groupId = FindPiece(ps, proposal.targetPieceId).groupId
              /\ FacingEdgesClash(Translated(ps[i], proposal.delta), ps[j])

\* C2: a release whose proposed merge has an incompatible touching pair on the
\* boundary between the dragged group and the target group changes no
\* groupId and no currentPos.
C2_MergeAtomicity ==
    [][(Release /\ ProposalClashes(pieces, drag.groupId))
          => SameGroupsAndPositions(pieces, pieces')]_vars

\* a release has been rejected by the validator
C2_Witness ==
    /\ last.op \in {"up", "leave"}
    /\ last.outcome = "rejected"
    /\ ~drag.active

\* C3 as stated: after a merge or a drag of a multi-piece group, the members of
\* every group differ from their solved positions by one translation.
C3_RigidToSolved ==
    [][(MergeStep \/ GroupMoveStep)
          => \A i, j \in DOMAIN pieces :
                pieces'[i].groupId = pieces'[j].groupId
                    => /\ pieces'[i].currentPos.x - pieces'[j].currentPos.x
                            = pieces'[i].solvedPos.x - pieces'[j].solvedPos.x
                       /\ pieces'[i].currentPos.y - pieces'[j].currentPos.y
                            = pieces'[i].solvedPos.y - pieces'[j].solvedPos.y]_vars

\* C3 amended: a merge or a drag of a multi-piece group leaves the offsets
\* between the members of every group as they were: a group moves as a unit.
C3_GroupMovesAsUnit ==
    [][(MergeStep \/ GroupMoveStep)
          => \A i, j \in DOMAIN pieces :
                pieces[i].groupId = pieces[j].groupId
                    => /\ pieces'[i].currentPos.x - pieces'[j].currentPos.x
                            = pieces[i].currentPos.x - pieces[j].currentPos.x
                       /\ pieces'[i].currentPos.y - pieces'[j].currentPos.y
                            = pieces[i].currentPos.y - pieces[j].currentPos.y]_vars

\* a group of more than one piece has been dragged away from where it was
C3_Witness ==
    /\ last.op = "move"
    /\ drag.active
    /\ Len(GroupMembers(pieces, drag.groupId)) > 1
    /\ \E i \in DOMAIN pieces :
          /\ pieces[i].groupId = drag.groupId
          /\ pieces[i].id \in DOMAIN drag.startPiecePos
          /\ pieces[i].currentPos # drag.startPiecePos[pieces[i].id]

---------------------------------------------------------------------------
(* Properties of the win evaluator and of detach *)

OneGroup(ps) == \A i, j \in DOMAIN ps : ps[i].groupId = ps[j].groupId

\* every piece lies at the first piece's offset from its solved position,
\* within the tolerance
SolvedArrangement(ps) ==
    \A i \in DOMAIN ps :
        /\ Abs((ps[i].currentPos.x - ps[i].solvedPos.x)
                 - (ps[1].currentPos.x - ps[1].solvedPos.x)) < Epsilon
        /\ Abs((ps[i].currentPos.y - ps[i].solvedPos.y)
                 - (ps[1].currentPos.y - ps[1].solvedPos.y)) < Epsilon

\* C5: a release sets status to 'won', or marks a piece isSolved, only if the
\* pieces after the merge form one group in the solved arrangement (every
\* piece at the anchor's offset within 5 px); a merge that leaves one group
\* in another arrangement does not win.
C5_WinSoundness ==
    [][/\ (Release /\ (\/ (status' = "won" /\ status # "won")
                        \/ \E i \in DOMAIN pieces :
                              pieces'[i].isSolved /\ ~pieces[i].isSolved))
            => /\ last'.checked # << >>
               /\ OneGroup(last'.checked)
               /\ SolvedArrangement(last'.checked)
       /\ (MergeStep /\ OneGroup(last'.checked)
                     /\ ~SolvedArrangement(last'.checked))
            => /\ status' = status
               /\ \A i \in DOMAIN pieces : pieces'[i].isSolved = pieces[i].isSolved
      ]_vars

\* the game has been won away from the board: the block stays where it is
C5_Witness ==
    /\ status = "won"
    /\ last.outcome = "won"
    /\ \A i \in DOMAIN pieces : pieces[i].isSolved
    /\ \E i \in DOMAIN pieces : pieces[i].currentPos # pieces[i].solvedPos

PhysicallyAdjacent(p, q) ==
    \/ FlushRightLeft(p, q, Epsilon)
    \/ FlushRightLeft(q, p, Epsilon)
    \/ FlushBottomTop(p, q, Epsilon)
    \/ FlushBottomTop(q, p, Epsilon)

\* the indices of `among` that a chain of physically adjacent pieces of
\* `among` links to an index of `seen`
RECURSIVE LinkedTo(_, _, _)
LinkedTo(ps, among, seen) ==
    LET more == {b \in among \ seen :
                    \E a \in seen : PhysicallyAdjacent(ps[a], ps[b])}
    IN  IF more = {} THEN seen ELSE LinkedTo(ps, among, seen \cup more)

\* a double-click that split a group
DetachStep == last'.op = "detach" /\ last'.outcome = "detached"

\* C6: detaching piece x from a group of more than one piece leaves x alone
\* in a group and the remaining members partitioned into one group per
\* connected component under physical adjacency (edge types ignored); nothing
\* but x moves and no other group is touched.
C6_SplitConnectivity ==
    [][DetachStep =>
        \E x \in DOMAIN pieces :
            LET old  == {i \in DOMAIN pieces : pieces[i].groupId = pieces[x].groupId}
                rest == old \ {x}
            IN  /\ rest # {}
                /\ pieces'[x].currentPos # pieces[x].currentPos
                /\ \A i \in DOMAIN pieces \ {x} :
                      /\ pieces'[i].groupId # pieces'[x].groupId
                      /\ pieces'[i].currentPos = pieces[i].currentPos
                /\ \A i \in DOMAIN pieces \ old :
                      /\ pieces'[i].groupId = pieces[i].groupId
                      /\ \A j \in rest : pieces'[j].groupId # pieces'[i].groupId
                /\ \A i, j \in rest :
                      (pieces'[i].groupId = pieces'[j].groupId)
                          <=> (j \in LinkedTo(pieces', rest, {i}))
      ]_vars

\* a detach has split a group into three: the detached piece, nudged away
\* from two pieces that it was flush with, which are not adjacent to each
\* other and are now in groups of their own
C6_Witness ==
    /\ last.op = "detach" /\ last.outcome = "detached"
    /\ \E x, a, b \in DOMAIN pieces :
          LET before == Translated(pieces[x], Point(-DetachNudge, -DetachNudge))
          IN  /\ Cardinality({pieces[x].groupId, pieces[a].groupId,
                               pieces[b].groupId}) = 3
              /\ PhysicallyAdjacent(before, pieces[a])
              /\ PhysicallyAdjacent(before, pieces[b])
              /\ ~PhysicallyAdjacent(pieces[a], pieces[b])

---------------------------------------------------------------------------
(* Properties of a release *)

\* p and q lie exactly side to side
ExactlyFlush(p, q) ==
    \/ p.currentPos.x + p.width = q.currentPos.x /\ p.currentPos.y = q.currentPos.y
    \/ q.currentPos.x + q.width = p.currentPos.x /\ p.currentPos.y = q.currentPos.y
    \/ p.currentPos.x = q.currentPos.x /\ p.currentPos.y + p.height = q.currentPos.y
    \/ p.currentPos.x = q.currentPos.x /\ q.currentPos.y + q.height = p.currentPos.y

\* ms is ps after group g was merged into the group of a piece outside it:
\* the members of g carry that piece's group id, are translated by one common
\* delta, one of them lies exactly flush with a piece of the target group, and
\* every piece outside g has its currentPos and groupId of ps
MergedFrom(ps, ms, g) ==
    LET A == {i \in DOMAIN ps : ps[i].groupId = g}
    IN  /\ DOMAIN ms = DOMAIN ps
        /\ \E a \in A, t \in DOMAIN ps \ A :
              /\ \A i \in A :
                    /\ ms[i].groupId = ps[t].groupId
                    /\ ms[i].currentPos.x - ps[i].currentPos.x
                          = ms[a].currentPos.x - ps[a].currentPos.x
                    /\ ms[i].currentPos.y - ps[i].currentPos.y
                          = ms[a].currentPos.y - ps[a].currentPos.y
              /\ ExactlyFlush(ms[a], ms[t])
        /\ \A i \in DOMAIN ps \ A :
              /\ ms[i].groupId = ps[i].groupId
              /\ ms[i].currentPos = ps[i].currentPos

\* the first piece lies less than SNAP_DISTANCE from its solved position
AnchorNearSolved(ps) ==
    LET ox == ps[1].currentPos.x - ps[1].solvedPos.x
        oy == ps[1].currentPos.y - ps[1].solvedPos.y
    IN  ox * ox + oy * oy < SNAP_DISTANCE * SNAP_DISTANCE

\* qs and status st2 are what the win check makes of the merged pieces ms
WinCheckApplied(ms, qs, st, st2) ==
    IF OneGroup(ms) /\ SolvedArrangement(ms)
    THEN /\ st2 = "won"
         /\ \A i \in DOMAIN ms :
               /\ qs[i].isSolved
               /\ qs[i].groupId = ms[i].groupId
               /\ qs[i].currentPos = IF AnchorNearSolved(ms)
                                      THEN ms[i].solvedPos
                                      ELSE ms[i].currentPos
    ELSE st2 = st /\ qs = ms

\* C7 as stated: after a successful merge the dragged group carries the
\* target's id and is translated by one delta, the snapped piece is exactly
\* flush with the target piece, and every piece outside the dragged group has
\* kept its currentPos and groupId.
C7_MergeEffect ==
    [][MergeStep => MergedFrom(pieces, pieces', drag.groupId)]_vars

\* C7 amended: the pieces handed to the win check are the merge of the dragged
\* group as stated (target's id, one delta, snapped piece exactly flush, the
\* other pieces untouched); the win check runs on them in the same release
\* and, when it wins with the anchor less than 20 px from its solved position,
\* sets every piece, inside and outside the dragged group, to its solvedPos.
C7_MergeThenWinCheck ==
    [][MergeStep =>
          /\ MergedFrom(pieces, last'.checked, drag.groupId)
          /\ WinCheckApplied(last'.checked, pieces', status, status')]_vars

\* a merge has won the game close to the board and the win check has put
\* pieces that the merge had left alone on their solved positions
C7_Witness ==
    /\ last.outcome = "won"
    /\ \A i \in DOMAIN pieces : pieces[i].currentPos = pieces[i].solvedPos
    /\ \E i \in DOMAIN pieces :
          last.checked[i].currentPos # pieces[i].currentPos

\* a piece of group g overlaps a piece outside g (bounding boxes)
OverlapsOutsider(ps, g) ==
    \E i, j \in DOMAIN ps :
        /\ ps[i].groupId = g
        /\ ps[j].groupId # g
        /\ ps[i].currentPos.x < ps[j].currentPos.x + ps[j].width
        /\ ps[j].currentPos.x < ps[i].currentPos.x + ps[i].width
        /\ ps[i].currentPos.y < ps[j].currentPos.y + ps[j].height
        /\ ps[j].currentPos.y < ps[i].currentPos.y + ps[i].height

\* C8: a release at which a piece of the dragged group overlaps a piece outside
\* the group skips snap detection: no groupId and no currentPos changes.
C8_OverlapGuard ==
    [][(Release /\ OverlapsOutsider(pieces, drag.groupId))
          => SameGroupsAndPositions(pieces, pieces')]_vars

\* C9: snap evaluation runs exactly once for each drag gesture, at the release
\* that ends it: an active gesture ends by nothing but a release, a
\* pointer-move changes no groupId, and a step that is not the release of an
\* active drag merges nothing.
C9_OneEvaluationPerGesture ==
    [][/\ (drag.active /\ drag' # drag) => Release
       /\ (last'.op = "move")
             => \A i \in DOMAIN pieces : pieces'[i].groupId = pieces[i].groupId
       /\ (~drag.active) => last'.outcome \notin {"merged", "won", "rejected"}
      ]_vars

\* there is a compatible pair of a piece of g and a piece outside g within
\* snap distance of lying side to side
SnapCandidateExists(ps, g) ==
    \E i, j \in DOMAIN ps :
        /\ ps[i].groupId = g
        /\ ps[j].groupId # g
        /\ \/ FlushRightLeft(ps[i], ps[j], SNAP_DISTANCE)
                  /\ ps[i].shape.right + ps[j].shape.left = 0
           \/ FlushRightLeft(ps[j], ps[i], SNAP_DISTANCE)
                  /\ ps[j].shape.right + ps[i].shape.left = 0
           \/ FlushBottomTop(ps[i], ps[j], SNAP_DISTANCE)
                  /\ ps[i].shape.bottom + ps[j].shape.top = 0
           \/ FlushBottomTop(ps[j], ps[i], SNAP_DISTANCE)
                  /\ ps[j].shape.bottom + ps[i].shape.top = 0

\* a pointer-leave that arrives during an active drag
LeaveStep == drag.active /\ last'.op = "leave"

\* C10 as stated: a pointer-leave during an active drag ends the drag without
\* a merge attempt: the drag is inactive, no piece moves, no groupId changes.
C10_LeaveCancels ==
    [][LeaveStep => /\ ~drag'.active
                    /\ SameGroupsAndPositions(pieces, pieces')]_vars

\* C10 amended: a pointer-leave during an active drag ends the drag as a
\* pointer-up does, snap evaluation included: the drag is inactive, and every
\* piece stays where the last pointer-move put it, with its groupId, whenever
\* the dragged group has no compatible neighbour within snap distance.
C10_LeaveReleases ==
    [][LeaveStep => /\ ~drag'.active
                    /\ ~SnapCandidateExists(pieces, drag.groupId)
                          => SameGroupsAndPositions(pieces, pieces')]_vars

\* a pointer-leave has ended a drag that had moved a piece, and merged nothing
C10_Witness ==
    /\ last.op = "leave"
    /\ last.outcome = "none"
    /\ ~drag.active
    /\ moves > 0

---------------------------------------------------------------------------
(* Properties of the solved transition *)

\* C11: once status is 'won' no drag or release fires the solved transition
\* again, and status leaves 'won' only by a detach that splits the single
\* group, after which more than one group exists.
C11_SolvedOncePerAssembly ==
    [][/\ (status = "won") => last'.outcome # "won"
       /\ (status = "won" /\ status' # "won")
             => /\ DetachStep
                /\ status' = "playing"
                /\ ~OneGroup(pieces')
      ]_vars

\* the assembled block has been dragged and released in a won game, and the
\* game is still won
C11_Witness ==
    /\ status = "won"
    /\ last.op = "up"
    /\ last.outcome = "none"
    /\ moves > 0

---------------------------------------------------------------------------
(* The 2x2 scenario: pieces[1..4] are the cells (0,0), (0,1), (1,0), (1,1) *)

TwoByTwo == game.rows = 2 /\ game.cols = 2

\* p and q lie at one and the same offset from their solved positions
SameOffset(p, q) ==
    /\ p.currentPos.x - p.solvedPos.x = q.currentPos.x - q.solvedPos.x
    /\ p.currentPos.y - p.solvedPos.y = q.currentPos.y - q.solvedPos.y

\* the offsets of p and q from their solved positions differ by less than the
\* snap distance on both axes
OffsetsWithinSnap(p, q) ==
    /\ Abs((p.currentPos.x - p.solvedPos.x)
             - (q.currentPos.x - q.solvedPos.x)) < SNAP_DISTANCE
    /\ Abs((p.currentPos.y - p.solvedPos.y)
             - (q.currentPos.y - q.solvedPos.y)) < SNAP_DISTANCE

\* the release of the singleton (0,0) within snap distance of (0,1), all four
\* pieces being singleton groups
FirstRelease ==
    /\ TwoByTwo
    /\ Release
    /\ Cardinality(GroupIds(pieces)) = 4
    /\ drag.groupId = pieces[1].groupId
    /\ OffsetsWithinSnap(pieces[1], pieces[2])

\* the release of the pair (0,0)-(0,1) within snap distance of the pair
\* (1,0)-(1,1), both pairs in the solved arrangement
SecondRelease ==
    /\ TwoByTwo
    /\ Release
    /\ drag.groupId = pieces[1].groupId
    /\ pieces[2].groupId = pieces[1].groupId
    /\ pieces[3].groupId # pieces[1].groupId
    /\ pieces[4].groupId = pieces[3].groupId
    /\ SameOffset(pieces[1], pieces[2])
    /\ SameOffset(pieces[3], pieces[4])
    /\ OffsetsWithinSnap(pieces[1], pieces[3])

FirstEffect ==
    /\ pieces'[1].groupId = pieces'[2].groupId
    /\ SameOffset(pieces'[1], pieces'[2])
    /\ \A i \in {2, 3, 4} : /\ pieces'[i].currentPos = pieces[i].currentPos
                            /\ pieces'[i].groupId = pieces[i].groupId

SecondEffect ==
    /\ status = "playing"
    /\ status' = "won"
    /\ last'.outcome = "won"
    /\ OneGroup(pieces')
    /\ \A i \in DOMAIN pieces : /\ pieces'[i].isSolved
                                /\ SameOffset(pieces'[i], pieces'[1])

\* C12 as stated: in the 2x2 game, releasing (0,0) within snap distance of
\* (0,1), all pieces singletons, merges the two at the solved offset; releasing
\* that pair within snap distance of the merged pair (1,0)-(1,1) yields one
\* group, marks every piece isSolved and fires the solved transition.
C12_TwoByTwoScenario ==
    [][/\ FirstRelease => FirstEffect
       /\ SecondRelease => SecondEffect]_vars

\* C12 amended: the same, for releases at which the screen with the overlap
\* test finds no piece of the dragged group overlapping a piece outside it.
C12_TwoByTwoScenarioClear ==
    [][LET clear == ~(overlapGuard /\ OverlapsOutsider(pieces, drag.groupId))
       IN  /\ (FirstRelease /\ clear) => FirstEffect
           /\ (SecondRelease /\ clear) => SecondEffect]_vars

\* the 2x2 game has been won by releasing the pair (0,0)-(0,1), and the first
\* merge of the run is behind it
C12_Witness ==
    /\ TwoByTwo
    /\ status = "won"
    /\ last.outcome = "won"
    /\ last.dragged = {0, 1}
    /\ \A i \in DOMAIN pieces : pieces[i].isSolved

---------------------------------------------------------------------------
(* Properties of detach *)

\* a double-click that resolved to a piece alone in its group
AloneStep == last'.op = "detach" /\ last'.outcome = "alone"

\* C13: a double-click that resolves to a piece which is the only member of
\* its group changes no piece's groupId, currentPos or isSolved and leaves the
\* game status as it was.
C13_SingletonDetachNoOp ==
    [][AloneStep => (pieces' = pieces /\ status' = status)]_vars

\* C14: on a detach from a group of more than one piece the detached piece x
\* gets a group id no piece held before and is nudged by (+20, +20); the first
\* remaining member keeps the old id and every other remaining member keeps
\* it or gets an id that no piece held before and that is not x's; members
\* that no chain of adjacent members links have different ids; the remaining
\* members keep their positions, and the pieces outside the old group keep
\* position and groupId.
C14_DetachFrame ==
    [][DetachStep =>
        \E x \in DOMAIN pieces :
            LET g     == pieces[x].groupId
                held  == GroupIds(pieces)
                old   == {i \in DOMAIN pieces : pieces[i].groupId = g}
                rest  == old \ {x}
                first == CHOOSE i \in rest : \A j \in rest : i <= j
            IN  /\ rest # {}
                /\ pieces'[x].groupId \notin held
                /\ pieces'[x].currentPos = Point(pieces[x].currentPos.x + 20,
                                                 pieces[x].currentPos.y + 20)
                /\ pieces'[first].groupId = g
                /\ \A i \in rest :
                      /\ pieces'[i].currentPos = pieces[i].currentPos
                      /\ \/ pieces'[i].groupId = g
                         \/ /\ pieces'[i].groupId \notin held
                            /\ pieces'[i].groupId # pieces'[x].groupId
                /\ \A i, j \in rest :
                      (j \notin LinkedTo(pieces', rest, {i}))
                          => pieces'[i].groupId # pieces'[j].groupId
                /\ \A i \in DOMAIN pieces \ old :
                      /\ pieces'[i].currentPos = pieces[i].currentPos
                      /\ pieces'[i].groupId = pieces[i].groupId
      ]_vars

\* a detach has left the old group's id on one piece and given ids above
\* every piece id to the detached piece and to two further pieces, all three
\* different
C14_Witness ==
    /\ last.op = "detach" /\ last.outcome = "detached"
    /\ \E x, a, b \in DOMAIN pieces :
          /\ pieces[x].groupId >= Len(pieces)
          /\ pieces[a].groupId > pieces[x].groupId
          /\ pieces[b].groupId > pieces[a].groupId

\* C15: a detach from a group of more than one piece clears isSolved on the
\* detached piece and on every remaining member of its former group, in one
\* cluster or in several.
C15_DetachClearsSolved ==
    [][DetachStep =>
        \E x \in DOMAIN pieces :
            /\ pieces'[x].groupId \notin GroupIds(pieces)
            /\ \A i \in DOMAIN pieces :
                  (pieces[i].groupId = pieces[x].groupId) => ~pieces'[i].isSolved
      ]_vars

\* a piece has been detached from the puzzle that was won on the board: the
\* others still lie on their solved positions, in more than one group, and no
\* piece is marked solved
C15_Witness ==
    /\ last.op = "detach" /\ last.outcome = "detached"
    /\ \A i \in DOMAIN pieces : ~pieces[i].isSolved
    /\ \E x \in DOMAIN pieces :
          /\ pieces[x].currentPos = Point(pieces[x].solvedPos.x + DetachNudge,
                                          pieces[x].solvedPos.y + DetachNudge)
          /\ \A i \in DOMAIN pieces \ {x} : pieces[i].currentPos = pieces[i].solvedPos
          /\ \E i, j \in DOMAIN pieces \ {x} : pieces[i].groupId # pieces[j].groupId

---------------------------------------------------------------------------
(* Properties of the win check *)

\* a release whose win check succeeded
WinStep == Release /\ last'.outcome = "won"

\* the square of the distance of the anchor of ps from its solved position
OffsetSquared(ps) ==
    LET ox == ps[1].currentPos.x - ps[1].solvedPos.x
        oy == ps[1].currentPos.y - ps[1].solvedPos.y
    IN  ox * ox + oy * oy

\* C16: when the win check succeeds every piece is marked isSolved; every
\* piece is put exactly on its solvedPos if and only if the common offset is
\* less than SNAP_DISTANCE (20) from zero, and otherwise every piece stays
\* exactly where the merge put it.
C16_WinMarksAndSnaps ==
    [][WinStep =>
        LET merged == last'.checked
            near   == OffsetSquared(merged) < 20 * 20
        IN  /\ \A i \in DOMAIN pieces : pieces'[i].isSolved
            /\ near <=> (\A i \in DOMAIN pieces :
                              pieces'[i].currentPos = pieces'[i].solvedPos)
            /\ ~near => (\A i \in DOMAIN pieces :
                              pieces'[i].currentPos = merged[i].currentPos)
      ]_vars

\* the puzzle has been completed exactly SNAP_DISTANCE away from the board and
\* lies where the merge put it, every piece marked solved
C16_Witness ==
    /\ last.outcome = "won"
    /\ OffsetSquared(last.checked) = SNAP_DISTANCE * SNAP_DISTANCE
    /\ \A i \in DOMAIN pieces : /\ pieces[i].isSolved
                                /\ pieces[i].currentPos = last.checked[i].currentPos

\* C17: the win check evaluated again on the pieces and status that a
\* successful win check has just left succeeds again, yields the same isSolved
\* values and the same status, and leaves every currentPos where it is.
C17_WinCheckIdempotent ==
    [][WinStep =>
        LET again == checkWinCondition(pieces', status')
        IN  /\ again.won
            /\ again.status = status'
            /\ \A i \in DOMAIN pieces :
                  /\ again.pieces[i].isSolved = pieces'[i].isSolved
                  /\ again.pieces[i].currentPos = pieces'[i].currentPos
      ]_vars

\* the win check has moved the pieces onto the board, and evaluated on the
\* result it moves nothing
C17_Witness ==
    /\ last.outcome = "won"
    /\ \E i \in DOMAIN pieces : pieces[i].currentPos # last.checked[i].currentPos
    /\ checkWinCondition(pieces, status).pieces = pieces

---------------------------------------------------------------------------
(* Properties of the candidate search *)

\* the four directions in the order of the scan: right-left, left-right,
\* bottom-top, top-bottom
Directions == 1..4

\* side d of p faces the opposite side of q at less than SNAP_DISTANCE on
\* both axes, and the two edge types sum to zero
CandidateAt(p, q, d) ==
    CASE d = 1 -> FlushRightLeft(p, q, SNAP_DISTANCE) /\ p.shape.right + q.shape.left = 0
      [] d = 2 -> FlushRightLeft(q, p, SNAP_DISTANCE) /\ p.shape.left + q.shape.right = 0
      [] d = 3 -> FlushBottomTop(p, q, SNAP_DISTANCE) /\ p.shape.bottom + q.shape.top = 0
      [] d = 4 -> FlushBottomTop(q, p, SNAP_DISTANCE) /\ p.shape.top + q.shape.bottom = 0

\* the translation that puts side d of p exactly against q
DeltaAt(p, q, d) ==
    CASE d = 1 -> Point(q.currentPos.x - p.width - p.currentPos.x,
                        q.currentPos.y - p.currentPos.y)
      [] d = 2 -> Point(q.currentPos.x + q.width - p.currentPos.x,
                        q.currentPos.y - p.currentPos.y)
      [] d = 3 -> Point(q.currentPos.x - p.currentPos.x,
                        q.currentPos.y - p.height - p.currentPos.y)
      [] d = 4 -> Point(q.currentPos.x - p.currentPos.x,
                        q.currentPos.y + q.height - p.currentPos.y)

\* the candidates <<a, o, d>> of the pieces at the array positions A against
\* those at the array positions O
Candidates(ps, A, O) ==
    {c \in A \X O \X Directions : CandidateAt(ps[c[1]], ps[c[2]], c[3])}

\* c comes before e in the scan: dragged piece, then other piece, then direction
ScannedBefore(c, e) ==
    \/ c[1] < e[1]
    \/ c[1] = e[1] /\ c[2] < e[2]
    \/ c[1] = e[1] /\ c[2] = e[2] /\ c[3] < e[3]

FirstScanned(C) == CHOOSE c \in C : \A e \in C \ {c} : ScannedBefore(c, e)

LengthSquared(pt) == pt.x * pt.x + pt.y * pt.y

\* a release that reaches the candidate search
SearchStep ==
    /\ Release
    /\ ~(overlapGuard /\ OverlapsOutsider(pieces, drag.groupId))

\* C19: the candidate a release acts on is the first in the scan order
\* (dragged pieces in array order, then other pieces in array order, then
\* right-left, left-right, bottom-top, top-bottom) among the pairs whose
\* facing sides are less than SNAP_DISTANCE apart on both axes with edge types
\* summing to zero, whether or not a nearer candidate exists; the release
\* finds none exactly when there is no such pair.
C19_FirstMatchInScanOrder ==
    [][SearchStep =>
        LET A == {i \in DOMAIN pieces : pieces[i].groupId = drag.groupId}
            C == Candidates(pieces, A, DOMAIN pieces \ A)
            c == FirstScanned(C)
        IN  IF C = {}
            THEN last'.outcome = "none" /\ pieces' = pieces
            ELSE /\ last'.outcome \in {"merged", "won", "rejected"}
                 /\ last'.target = pieces[c[2]].id
                 /\ last'.delta = DeltaAt(pieces[c[1]], pieces[c[2]], c[3])
                 /\ last'.outcome \in {"merged", "won"} =>
                        \A i \in A :
                            /\ last'.checked[i].currentPos =
                                   Translated(pieces[i], last'.delta).currentPos
                            /\ last'.checked[i].groupId = pieces[c[2]].groupId
      ]_vars

\* a release has merged along a candidate although the dragged group, where
\* it was dropped, had another candidate strictly nearer
C19_Witness ==
    /\ last.outcome \in {"merged", "won"}
    /\ LET A    == {i \in DOMAIN pieces : pieces[i].id \in last.dragged}
           back == Point(-last.delta.x, -last.delta.y)
           drop == [i \in DOMAIN pieces |->
                       IF i \in A THEN Translated(last.checked[i], back)
                                  ELSE last.checked[i]]
       IN  \E e \in Candidates(drop, A, DOMAIN pieces \ A) :
               LengthSquared(DeltaAt(drop[e[1]], drop[e[2]], e[3]))
                   < LengthSquared(last.delta)

---------------------------------------------------------------------------
(* Properties of the contour *)

\* the point at which a command leaves the pen
EndPoint(cmd) == cmd.pts[Len(cmd.pts)]

\* the number of commands getTabPath issues for a side
SideLength(edge) == IF edge = 0 THEN 1 ELSE 5

\* a point given in pixels, in the unit of the contour
Pixels(px, py) == Point(Hundredth * px, Hundredth * py)

\* C20: for every size, shape and tab size the contour starts with a move to
\* (0,0), its top side ends at the corner (w,0), its right side at (w,h), its
\* bottom side at (0,h) and its left side at (0,0), where it is closed; with
\* four Flat sides it is the four straight sides of the rectangle and nothing
\* else.
C20_ContourClosure ==
    path.drawn =>
        LET w  == path.width
            h  == path.height
            c  == path.cmds
            n1 == 1 + SideLength(path.shape.top)
            n2 == n1 + SideLength(path.shape.right)
            n3 == n2 + SideLength(path.shape.bottom)
            n4 == n3 + SideLength(path.shape.left)
        IN  /\ Len(c) = n4 + 1
            /\ c[1] = MoveTo(Pixels(0, 0))
            /\ EndPoint(c[n1]) = Pixels(w, 0)
            /\ EndPoint(c[n2]) = Pixels(w, h)
            /\ EndPoint(c[n3]) = Pixels(0, h)
            /\ EndPoint(c[n4]) = Pixels(0, 0)
            /\ c[n4 + 1] = ClosePath
            /\ \A k \in 2..n4 : c[k].type \in {"L", "C"}
            /\ (n4 = 5) =>
                  c = <<MoveTo(Pixels(0, 0)), LineTo(Pixels(w, 0)),
                        LineTo(Pixels(w, h)), LineTo(Pixels(0, h)),
                        LineTo(Pixels(0, 0)), ClosePath>>

\* the contour of a 40 x 20 piece with a Tab on top and a Slot below has been
\* drawn: the Tab reaches above the rectangle and the Slot into it
C20_Witness ==
    /\ path.drawn
    /\ path.width = 40 /\ path.height = 20 /\ path.tabSize = 10
    /\ path.shape.top = 1 /\ path.shape.bottom = -1
    /\ \E k \in DOMAIN path.cmds : path.cmds[k].pts[1].y < 0
    /\ \E k \in DOMAIN path.cmds : /\ path.cmds[k].type = "C"
                                   /\ path.cmds[k].pts[1].y < Hundredth * 20
                                   /\ path.cmds[k].pts[1].y > 0

---------------------------------------------------------------------------
(* Properties of Tab and Slot on the four sides *)

\* the sides in the order they are drawn: top, right, bottom, left
Sides == 1..4

SideEdge(shape, s) == <<shape.top, shape.right, shape.bottom, shape.left>>[s]

\* the number of commands issued before side s is drawn
SideStart(shape, s) ==
    1 + (IF s > 1 THEN SideLength(shape.top) ELSE 0)
      + (IF s > 2 THEN SideLength(shape.right) ELSE 0)
      + (IF s > 3 THEN SideLength(shape.bottom) ELSE 0)

\* the corner of the w x h rectangle at which side s starts, the direction in
\* which it runs and the normal that points out of the rectangle
SideCorner(w, h, s) == <<Point(0, 0), Point(w, 0), Point(w, h), Point(0, h)>>[s]

SideDirection(s) == <<Point(1, 0), Point(0, 1), Point(-1, 0), Point(0, -1)>>[s]

OutwardNormal(s) == <<Point(0, -1), Point(1, 0), Point(0, 1), Point(-1, 0)>>[s]

\* how far pt lies along side s from its corner, and how far out of the
\* rectangle it lies from the line of side s
AlongSide(pt, w, h, s) ==
    (pt.x - Hundredth * SideCorner(w, h, s).x) * SideDirection(s).x
        + (pt.y - Hundredth * SideCorner(w, h, s).y) * SideDirection(s).y

OutOfSide(pt, w, h, s) ==
    (pt.x - Hundredth * SideCorner(w, h, s).x) * OutwardNormal(s).x
        + (pt.y - Hundredth * SideCorner(w, h, s).y) * OutwardNormal(s).y

InsideBox(pt, w, h) ==
    /\ 0 <= pt.x /\ pt.x <= Hundredth * w
    /\ 0 <= pt.y /\ pt.y <= Hundredth * h

\* C21: the Slot curve is the Tab curve with the sign of every perpendicular
\* offset inverted and the along-edge coordinates kept; on each of the four
\* sides of a drawn piece every point of a Tab or Slot lies where the Tab
\* curve puts it along the side, at tabSize times the Tab curve's offset out
\* of the rectangle for a Tab and into it for a Slot, so that the offset
\* points of a Tab lie outside the bounding box and those of a Slot inside.
C21_SlotMirrorsTab ==
    /\ \A k \in DOMAIN getTabPath(1) :
          /\ Len(getTabPath(-1)) = Len(getTabPath(1))
          /\ getTabPath(-1)[k].type = getTabPath(1)[k].type
          /\ \A n \in DOMAIN getTabPath(1)[k].pts :
                /\ getTabPath(-1)[k].pts[n].x = getTabPath(1)[k].pts[n].x
                /\ getTabPath(-1)[k].pts[n].y = -getTabPath(1)[k].pts[n].y
    /\ path.drawn =>
          \A s \in Sides :
              LET e     == SideEdge(path.shape, s)
                  len   == IF s \in {1, 3} THEN path.width ELSE path.height
                  first == SideStart(path.shape, s)
              IN  e # 0 =>
                  \A k \in DOMAIN getTabPath(1) :
                  \A n \in DOMAIN getTabPath(1)[k].pts :
                      LET pt     == path.cmds[first + k].pts[n]
                          tab    == getTabPath(1)[k].pts[n]
                          offset == OutOfSide(pt, path.width, path.height, s)
                      IN  /\ path.cmds[first + k].type = getTabPath(1)[k].type
                          /\ AlongSide(pt, path.width, path.height, s) = tab.x * len
                          /\ offset = e * path.tabSize * Abs(tab.y)
                          /\ (e = 1 /\ offset # 0)
                                => ~InsideBox(pt, path.width, path.height)
                          /\ (e = -1) => InsideBox(pt, path.width, path.height)

\* a piece with a Tab on its right side and a Slot on its left side has been
\* drawn: a control point of the Tab lies to the right of the rectangle, one of
\* the Slot strictly inside it
C21_Witness ==
    /\ path.drawn
    /\ path.tabSize > 0
    /\ path.shape.right = 1 /\ path.shape.left = -1
    /\ \E k \in 1..5 :
          path.cmds[SideStart(path.shape, 2) + k].pts[1].x > Hundredth * path.width
    /\ \E k \in 1..5 :
          LET pt == path.cmds[SideStart(path.shape, 4) + k].pts[1]
          IN  pt.x > 0 /\ pt.x < Hundredth * path.width

---------------------------------------------------------------------------
(* Properties of the hit tester *)

\* tabSize of the game on the board
BoardTabSize ==
    getTabSize(game.cols * pieces[1].width, game.rows * pieces[1].height,
               game.rows, game.cols)

\* the piece at array position i passes the inflated bounding-box check and
\* the exact contour check at the tested point
PassesAt(i) ==
    /\ InInflatedBox(pieces[i], BoardTabSize, hit.at.x, hit.at.y)
    /\ InContour(pieces[i], BoardTabSize, hit.at.x, hit.at.y)

GroupSolved(g) ==
    \A i \in DOMAIN pieces : pieces[i].groupId = g => pieces[i].isSolved

GroupUnsolved(g) ==
    \A i \in DOMAIN pieces : pieces[i].groupId = g => ~pieces[i].isSolved

\* group g is examined before group k: the dragged group first, then unsolved
\* groups, then solved groups, the higher id first within one status
GroupBefore(g, k) ==
    /\ g # k
    /\ k # draggingGroupId
    /\ \/ g = draggingGroupId
       \/ GroupUnsolved(g) /\ GroupSolved(k)
       \/ GroupSolved(g) /\ GroupSolved(k) /\ g > k
       \/ GroupUnsolved(g) /\ GroupUnsolved(k) /\ g > k

\* the piece at array position i is examined before the one at position j
ExaminedBefore(i, j) ==
    \/ GroupBefore(pieces[i].groupId, pieces[j].groupId)
    \/ pieces[i].groupId = pieces[j].groupId /\ i > j

\* C22: the hit tester returns the id of one piece or none: the piece
\* returned passes the inflated bounding-box check and the exact contour check
\* and is examined before every other piece that passes both, groups being
\* examined in reverse render order (dragged group, unsolved groups, solved
\* groups, higher group id first within one status) and the pieces of a group
\* in reverse array order; none is returned exactly when no piece passes.
C22_FirstHitInReverseRenderOrder ==
    hit.tested =>
        LET passing == {i \in DOMAIN pieces : PassesAt(i)}
        IN  IF passing = {}
            THEN hit.id = Null
            ELSE \E i \in passing :
                    /\ hit.id = pieces[i].id
                    /\ \A j \in passing \ {i} : ExaminedBefore(i, j)

\* a point under an unsolved piece and under a solved piece of a group with
\* a higher id, neither of them dragged, has resolved to the unsolved piece
C22_Witness ==
    /\ hit.tested
    /\ draggingGroupId = Null
    /\ \E i, j \in DOMAIN pieces :
          /\ PassesAt(i) /\ PassesAt(j)
          /\ ~pieces[i].isSolved /\ pieces[j].isSolved
          /\ pieces[i].groupId < pieces[j].groupId
          /\ hit.id = pieces[i].id

---------------------------------------------------------------------------
(* Properties of degenerate configurations *)

\* pt lies on the boundary of the w x h rectangle
OnBoxBoundary(pt, w, h) ==
    /\ InsideBox(pt, w, h)
    /\ \/ pt.x = 0 \/ pt.x = Hundredth * w
       \/ pt.y = 0 \/ pt.y = Hundredth * h

\* C23: for the 1x1 grid generatePieces yields exactly one piece, whose four
\* sides are Flat; with tabSize = 0 the contour of every shape starts with a
\* move to the top-left corner, ends there and is closed, and every vertex
\* and control point lies on the boundary of the bounding box.
C23_DegenerateStayValid ==
    /\ (status = "preview" /\ game.rows = 1 /\ game.cols = 1)
          => /\ Len(pieces) = 1
             /\ pieces[1].shape = [top |-> 0, right |-> 0, bottom |-> 0, left |-> 0]
    /\ (path.drawn /\ path.tabSize = 0)
          => /\ Len(path.cmds) >= 6
             /\ path.cmds[1] = MoveTo(Pixels(0, 0))
             /\ EndPoint(path.cmds[Len(path.cmds) - 1]) = Pixels(0, 0)
             /\ path.cmds[Len(path.cmds)] = ClosePath
             /\ \A k \in DOMAIN path.cmds : \A n \in DOMAIN path.cmds[k].pts :
                   OnBoxBoundary(path.cmds[k].pts[n], path.width, path.height)

\* the 1x1 puzzle has been generated, and the contour of a piece with Tabs
\* and Slots on all four sides has been drawn with tabSize 0: all of its 22
\* commands are there
C23_Witness ==
    /\ status = "preview"
    /\ Len(pieces) = 1
    /\ path.drawn
    /\ path.tabSize = 0
    /\ path.shape = [top |-> 1, right |-> -1, bottom |-> 1, left |-> -1]
    /\ Len(path.cmds) = 22

---------------------------------------------------------------------------
(* Properties of the groups as physical clusters *)

\* the array positions of the members of group g
MembersAt(ps, g) == {i \in DOMAIN ps : ps[i].groupId = g}

\* every group of ps is connected: a chain of physically adjacent members
\* links any two of its members
AllGroupsConnected(ps) ==
    \A i \in DOMAIN ps :
        LinkedTo(ps, MembersAt(ps, ps[i].groupId), {i})
            = MembersAt(ps, ps[i].groupId)

\* C24: in every state reached by drags, releases and detaches each group is
\* connected under physical adjacency (bounding boxes flush side to side
\* within the 5 px tolerance); a merge joins the dragged group and the target
\* group, both connected, through a dragged piece that lies physically
\* adjacent to the target piece, and a detach leaves the remaining members in
\* one group per connected component.
C24_GroupsConnected ==
    /\ []AllGroupsConnected(pieces)
    /\ [][/\ MergeStep =>
                \E a, t \in DOMAIN pieces :
                    /\ pieces[a].groupId = drag.groupId
                    /\ pieces[t].id = last'.target
                    /\ pieces[t].groupId # drag.groupId
                    /\ last'.checked[a].groupId = last'.checked[t].groupId
                    /\ PhysicallyAdjacent(last'.checked[a], last'.checked[t])
           /\ DetachStep =>
                \E x \in DOMAIN pieces :
                    LET rest == MembersAt(pieces, pieces[x].groupId) \ {x}
                    IN  /\ MembersAt(pieces', pieces'[x].groupId) = {x}
                        /\ \A i, j \in rest :
                              (pieces'[i].groupId = pieces'[j].groupId)
                                  <=> (j \in LinkedTo(pieces', rest, {i}))
          ]_vars

\* a merge has left a group in which two members do not touch each other and
\* hang together through other members
C24_Witness ==
    /\ last.outcome = "merged"
    /\ \E i, j \in DOMAIN pieces :
          /\ i # j
          /\ pieces[i].groupId = pieces[j].groupId
          /\ pieces[i].id \in last.dragged
          /\ ~PhysicallyAdjacent(pieces[i], pieces[j])
    /\ AllGroupsConnected(pieces)

---------------------------------------------------------------------------
(* Completeness of the win check *)

\* the layout of ps is the solved layout moved by one translation
SolvedUpToTranslation(ps) ==
    \A i \in DOMAIN ps : SameOffset(ps[i], ps[1])

\* C25: after every pointer release, if all pieces share one groupId and lie
\* in the solved layout up to one common translation, status is 'won' and
\* every piece is marked isSolved.
C25_WinCompleteness ==
    [][Release =>
          ((OneGroup(pieces') /\ SolvedUpToTranslation(pieces'))
              => /\ status' = "won"
                 /\ \A i \in DOMAIN pieces : pieces'[i].isSolved)]_vars

\* a pointer-leave has ended the drag that completed the puzzle: one group in
\* the solved layout, the game won and every piece marked
C25_Witness ==
    /\ last.op = "leave"
    /\ last.outcome = "won"
    /\ OneGroup(pieces)
    /\ SolvedUpToTranslation(pieces)
    /\ status = "won"
    /\ \A i \in DOMAIN pieces : pieces[i].isSolved

---------------------------------------------------------------------------
(* One merge per release *)

\* p and q lie exactly side to side on a pair of sides whose edge types sum
\* to zero
FlushAndCompatible(p, q) ==
    \E d \in Directions :
        CandidateAt(p, q, d) /\ DeltaAt(p, q, d) = Point(0, 0)

\* C26: a pointer release merges the dragged group into at most one other
\* group: the number of distinct group ids goes down by exactly 1 when the
\* release merges and stays as it is otherwise, also when the translated
\* group lies flush and compatible with a piece of a third group.
C26_OneMergePerRelease ==
    [][Release =>
          Cardinality(GroupIds(pieces')) =
              IF last'.outcome \in {"merged", "won"}
              THEN Cardinality(GroupIds(pieces)) - 1
              ELSE Cardinality(GroupIds(pieces))]_vars

\* a release has merged the dragged group into one group and left it exactly
\* flush, on compatible sides, with a piece of another group
C26_Witness ==
    /\ last.outcome = "merged"
    /\ \E a, o \in DOMAIN pieces :
          /\ pieces[a].id \in last.dragged
          /\ pieces[o].groupId # pieces[a].groupId
          /\ FlushAndCompatible(pieces[a], pieces[o])

---------------------------------------------------------------------------
(* No second candidate after a rejection *)

\* the merge along candidate c of ps puts a piece of the dragged group A
\* against a piece of the target group on sides whose edge types do not sum
\* to zero
CandidateClashes(ps, A, c) ==
    \E i \in A, j \in DOMAIN ps :
        /\ ps[j].groupId = ps[c[2]].groupId
        /\ FacingEdgesClash(Translated(ps[i], DeltaAt(ps[c[1]], ps[c[2]], c[3])),
                            ps[j])

\* C27: when the first compatible candidate pair of the scan fails the
\* validation of the whole boundary, the release merges nothing: every piece
\* keeps its position and group, whatever other candidate pairs lie within
\* snap distance.
C27_NoRetryAfterRejection ==
    [][SearchStep =>
        LET A == MembersAt(pieces, drag.groupId)
            C == Candidates(pieces, A, DOMAIN pieces \ A)
        IN  (C # {} /\ CandidateClashes(pieces, A, FirstScanned(C)))
                => /\ pieces' = pieces
                   /\ status' = status
                   /\ last'.outcome = "rejected"]_vars

\* a release has been rejected although a later candidate pair of the scan,
\* within snap distance, would have passed the validation
C27_Witness ==
    /\ last.outcome = "rejected"
    /\ LET A == {i \in DOMAIN pieces : pieces[i].id \in last.dragged}
           C == Candidates(pieces, A, DOMAIN pieces \ A)
       IN  \E e \in C : /\ ScannedBefore(FirstScanned(C), e)
                        /\ ~CandidateClashes(pieces, A, e)


---------------------------------------------------------------------------
(* No stacked members of a group behind the overlap test *)

\* the merge along candidate c of ps puts a piece of the dragged group A at
\* the very position of a piece of the target group
CandidateStacks(ps, A, c) ==
    \E i \in A, j \in DOMAIN ps :
        /\ ps[j].groupId = ps[c[2]].groupId
        /\ Translated(ps[i], DeltaAt(ps[c[1]], ps[c[2]], c[3])).currentPos
               = ps[j].currentPos

StackedMembers(ps) ==
    \E i, j \in DOMAIN ps : /\ i # j
                            /\ ps[i].groupId = ps[j].groupId
                            /\ ps[i].currentPos = ps[j].currentPos

\* C28: in the screen whose checkSnapping has the overlap test, whatever the
\* drags, releases and detaches, no two distinct pieces of one group are at
\* the same currentPos (pieces are wider and higher than SNAP_DISTANCE): no
\* merge puts a dragged piece on top of a piece of the target group.
C28_NoStackedGroupMembers ==
    (overlapGuard /\ \A i \in DOMAIN pieces : /\ pieces[i].width > SNAP_DISTANCE
                                              /\ pieces[i].height > SNAP_DISTANCE)
        => ~StackedMembers(pieces)

\* in that screen a group has been released where the first candidate of the
\* scan, which the validator would accept, puts a dragged piece on top of a
\* piece of the target group; the overlap test has ended the release
C28_Witness ==
    /\ overlapGuard
    /\ last.op = "up"
    /\ last.outcome = "overlap"
    /\ LET A == {i \in DOMAIN pieces : pieces[i].id \in last.dragged}
           C == Candidates(pieces, A, DOMAIN pieces \ A)
       IN  /\ C # {}
           /\ CandidateStacks(pieces, A, FirstScanned(C))
           /\ ~CandidateClashes(pieces, A, FirstScanned(C))


---------------------------------------------------------------------------
(* isSolved is a property of the whole puzzle *)

\* C29: in every state reached by drags, releases and detaches, isSolved has
\* one value on all pieces, and that value is TRUE only when all pieces are in
\* one group; so the members of any group agree on isSolved, and the first
\* member of a group, which the render and hit-test ordering reads, speaks
\* for the group.
C29_SolvedFlagUniform ==
    /\ \A i, j \in DOMAIN pieces : pieces[i].isSolved = pieces[j].isSolved
    /\ (\E i \in DOMAIN pieces : pieces[i].isSolved)
           => Cardinality(GroupIds(pieces)) = 1
    /\ \A g \in GroupIds(pieces) : GroupSolved(g) \/ GroupUnsolved(g)

\* a piece has been detached from the assembled puzzle lying on the board:
\* it is 20 px off its solved position in a group of its own, the others are
\* on their solved positions, and no piece is marked solved any more
C29_Witness ==
    /\ last.op = "detach"
    /\ last.outcome = "detached"
    /\ \E i \in DOMAIN pieces :
        /\ pieces[i].currentPos = Point(pieces[i].solvedPos.x + DetachNudge,
                                        pieces[i].solvedPos.y + DetachNudge)
        /\ \A j \in DOMAIN pieces \ {i} :
            /\ pieces[j].currentPos = pieces[j].solvedPos
            /\ pieces[j].groupId # pieces[i].groupId
    /\ \A i \in DOMAIN pieces : ~pieces[i].isSolved


---------------------------------------------------------------------------
(* A won game is one group, auto-complete included *)

\* C30: whenever status is 'won' all pieces have one groupId, also when the
\* win comes from healPuzzle, whose renaming of the groups and whose timer
\* that moves the pieces and sets the status are separate callbacks between
\* which a double-click can detach a piece.
C30_WonIsOneGroup ==
    status = "won" => Cardinality(GroupIds(pieces)) = 1


---------------------------------------------------------------------------
(* Boundary recovery and the shape of the groups *)

\* the timer of handleResize runs ensurePiecesInsideBounds
RecoveryStep == last'.op = "resizeTimer" /\ last'.outcome = "recovered"

\* the members of every group of ps are as far from each other in qs
SameShapes(ps, qs) ==
    \A i, j \in DOMAIN ps :
        ps[i].groupId = ps[j].groupId
            => /\ qs[i].currentPos.x - qs[j].currentPos.x
                      = ps[i].currentPos.x - ps[j].currentPos.x
               /\ qs[i].currentPos.y - qs[j].currentPos.y
                      = ps[i].currentPos.y - ps[j].currentPos.y

\* C31: the boundary recovery after a window resize keeps every group rigid:
\* the differences of currentPos between the members of a group are the same
\* after it as before, and no groupId changes.
C31_RecoveryKeepsGroupsRigid ==
    [][RecoveryStep =>
          /\ SameShapes(pieces, pieces')
          /\ \A i \in DOMAIN pieces : pieces'[i].groupId = pieces[i].groupId]_vars


---------------------------------------------------------------------------
(* A group moves as a unit *)

\* a pointer-move that moves pieces
MoveStep == moves' = moves + 1

\* the delta handlePointerMove applies for the pointer at (cx, cy), from the
\* pointer and the limits stored at pointer-down
ClampedDelta(d, cx, cy) ==
    Point(Max(d.constraints.minDx, Min(cx - d.startPointer.x, d.constraints.maxDx)),
          Max(d.constraints.minDy, Min(cy - d.startPointer.y, d.constraints.maxDy)))

\* C32: after each pointer-move of an active drag every member of the dragged
\* group is at its position at pointer-down plus one common clamped delta
\* given by the latest pointer position alone, so the offsets between the
\* members of a group are kept; the pieces of the other groups keep their
\* currentPos, and no groupId or isSolved changes.
C32_GroupMovesAsUnit ==
    [][MoveStep =>
        /\ \E cx \in DragXs, cy \in DragYs :
            \A i \in DOMAIN pieces :
                pieces[i].groupId = drag.groupId
                    => /\ pieces[i].id \in DOMAIN drag.startPiecePos
                       /\ pieces'[i].currentPos =
                            Point(drag.startPiecePos[pieces[i].id].x
                                      + ClampedDelta(drag, cx, cy).x,
                                  drag.startPiecePos[pieces[i].id].y
                                      + ClampedDelta(drag, cx, cy).y)
        /\ SameShapes(pieces, pieces')
        /\ \A i \in DOMAIN pieces :
            /\ pieces[i].groupId # drag.groupId
                   => pieces'[i].currentPos = pieces[i].currentPos
            /\ pieces'[i].groupId = pieces[i].groupId
            /\ pieces'[i].isSolved = pieces[i].isSolved
            /\ pieces'[i].id = pieces[i].id]_vars

\* a group of several pieces, dragged beside a piece of another group, has
\* been moved twice and is away from where it was pressed
C32_Witness ==
    /\ drag.active
    /\ last.op = "move"
    /\ moves = MaxDragMoves
    /\ \E i, j, k \in DOMAIN pieces :
        /\ i # j
        /\ pieces[i].groupId = drag.groupId
        /\ pieces[j].groupId = drag.groupId
        /\ pieces[k].groupId # drag.groupId
        /\ pieces[i].currentPos # drag.startPiecePos[pieces[i].id]


---------------------------------------------------------------------------
(* Viewport clamp *)

\* a piece of the given size at pt is inside the bounds of the window
InsideBounds(pt, width, height) ==
    /\ -VIEWPORT_MARGIN_X <= pt.x
    /\ pt.x <= viewport.innerWidth - width - VIEWPORT_MARGIN_X
    /\ -VIEWPORT_MARGIN_Y + HEADER_RESERVED_SPACE <= pt.y
    /\ pt.y <= viewport.innerHeight - height - VIEWPORT_MARGIN_Y

\* the pieces pressed with the group, by array position
PressedWith(ps, d) == {i \in DOMAIN ps : ps[i].id \in DOMAIN d.startPiecePos}

\* every piece pressed with the group was inside the bounds at pointer-down
StartedInside(ps, d) ==
    \A i \in PressedWith(ps, d) :
        InsideBounds(d.startPiecePos[ps[i].id], ps[i].width, ps[i].height)

\* the limits of d are the intersection of the limits of the pieces pressed
\* with the group
LimitsIntersect(ps, d) ==
    LET M == PressedWith(ps, d)
        sx(i) == d.startPiecePos[ps[i].id].x
        sy(i) == d.startPiecePos[ps[i].id].y
    IN  /\ \A i \in M :
            /\ d.constraints.minDx >= -VIEWPORT_MARGIN_X - sx(i)
            /\ d.constraints.maxDx
                   <= viewport.innerWidth - ps[i].width - VIEWPORT_MARGIN_X - sx(i)
            /\ d.constraints.minDy
                   >= -VIEWPORT_MARGIN_Y + HEADER_RESERVED_SPACE - sy(i)
            /\ d.constraints.maxDy
                   <= viewport.innerHeight - ps[i].height - VIEWPORT_MARGIN_Y - sy(i)
        /\ \E i \in M : d.constraints.minDx = -VIEWPORT_MARGIN_X - sx(i)
        /\ \E i \in M : d.constraints.maxDx
                   = viewport.innerWidth - ps[i].width - VIEWPORT_MARGIN_X - sx(i)
        /\ \E i \in M : d.constraints.minDy
                   = -VIEWPORT_MARGIN_Y + HEADER_RESERVED_SPACE - sy(i)
        /\ \E i \in M : d.constraints.maxDy
                   = viewport.innerHeight - ps[i].height - VIEWPORT_MARGIN_Y - sy(i)

\* C33: when the members of the dragged group were inside the bounds at
\* pointer-down (so the group fits in the window), after every pointer-move
\* each member has -36 <= x <= windowWidth - width - 36 and
\* 44 <= y <= windowHeight - height - 36, wherever the pointer is; the limits
\* applied are those computed at pointer-down, the intersection of the limits
\* of the members.
C33_ViewportClamp ==
    /\ [](drag.active => LimitsIntersect(pieces, drag))
    /\ [][(MoveStep /\ StartedInside(pieces, drag)) =>
            /\ drag' = drag
            /\ \A i \in DOMAIN pieces :
                pieces[i].groupId = drag.groupId
                    => InsideBounds(pieces'[i].currentPos, pieces'[i].width,
                                    pieces'[i].height)]_vars

\* a group of several pieces that was pressed inside the bounds has been
\* moved with the pointer beyond the window, and one of its members lies on a
\* limit while another one, held back by it, lies short of that limit
C33_Witness ==
    /\ drag.active
    /\ last.op = "move"
    /\ StartedInside(pieces, drag)
    /\ \E i, j \in DOMAIN pieces :
        /\ i # j
        /\ pieces[i].groupId = drag.groupId
        /\ pieces[j].groupId = drag.groupId
        /\ pieces[i].currentPos.x
               = viewport.innerWidth - pieces[i].width - VIEWPORT_MARGIN_X
        /\ pieces[j].currentPos.x < pieces[i].currentPos.x


---------------------------------------------------------------------------
(* Flat sides and the draws of the internal edges *)

\* the draws made before the loop reaches cell (r, c): one per earlier cell
\* that has a right-hand neighbour, one per earlier cell that has a lower one
DrawsBefore(r, c, rows, cols) ==
    r * (cols - 1) + c + r * cols + (IF r < rows - 1 THEN c ELSE 0)

\* the draw of the edge between (r, c) and (r, c + 1)
RightDraw(r, c, rows, cols) == DrawsBefore(r, c, rows, cols) + 1

\* the draw of the edge between (r, c) and (r + 1, c)
BottomDraw(r, c, rows, cols) ==
    DrawsBefore(r, c, rows, cols) + (IF c < cols - 1 THEN 2 ELSE 1)

PieceAt(ps, r, c) == CHOOSE p \in {ps[i] : i \in DOMAIN ps} : p.row = r /\ p.col = c

\* C34: a generated side is Flat exactly when it faces the perimeter of the
\* grid; every internal edge has one draw of its own, Tab or Slot, which the
\* left or upper piece carries as drawn on its right or bottom side and the
\* right or lower piece carries negated on its left or top side.
C34_FlatIffPerimeter ==
    status = "preview" =>
        LET rows == game.rows
            cols == game.cols
            RightCells  == {rc \in (0..(rows - 1)) \X (0..(cols - 1)) : rc[2] < cols - 1}
            BottomCells == {rc \in (0..(rows - 1)) \X (0..(cols - 1)) : rc[1] < rows - 1}
        IN  /\ \A i \in DOMAIN pieces :
                LET p == pieces[i]
                IN  /\ (p.shape.top = 0) <=> (p.row = 0)
                    /\ (p.shape.left = 0) <=> (p.col = 0)
                    /\ (p.shape.bottom = 0) <=> (p.row = rows - 1)
                    /\ (p.shape.right = 0) <=> (p.col = cols - 1)
                    /\ {p.shape.top, p.shape.left, p.shape.bottom, p.shape.right}
                           \subseteq {-1, 0, 1}
            /\ \A rc \in RightCells :
                LET drawn == IF game.rnd[RightDraw(rc[1], rc[2], rows, cols)] THEN 1 ELSE -1
                IN  /\ PieceAt(pieces, rc[1], rc[2]).shape.right = drawn
                    /\ PieceAt(pieces, rc[1], rc[2] + 1).shape.left = -drawn
            /\ \A rc \in BottomCells :
                LET drawn == IF game.rnd[BottomDraw(rc[1], rc[2], rows, cols)] THEN 1 ELSE -1
                IN  /\ PieceAt(pieces, rc[1], rc[2]).shape.bottom = drawn
                    /\ PieceAt(pieces, rc[1] + 1, rc[2]).shape.top = -drawn
            /\ {RightDraw(rc[1], rc[2], rows, cols) : rc \in RightCells}
                   \cap {BottomDraw(rc[1], rc[2], rows, cols) : rc \in BottomCells} = {}
            /\ Cardinality({RightDraw(rc[1], rc[2], rows, cols) : rc \in RightCells})
                   = Cardinality(RightCells)
            /\ Cardinality({BottomDraw(rc[1], rc[2], rows, cols) : rc \in BottomCells})
                   = Cardinality(BottomCells)
            /\ {RightDraw(rc[1], rc[2], rows, cols) : rc \in RightCells}
                   \cup {BottomDraw(rc[1], rc[2], rows, cols) : rc \in BottomCells}
                   = 1..NumDraws(rows, cols)

\* a generated 3 x 3 grid whose middle piece has no Flat side: a Slot on its
\* right, drawn as a Slot, and a Slot on its top, drawn as a Tab for the piece
\* above it
C34_Witness ==
    /\ status = "preview"
    /\ game.rows = 3 /\ game.cols = 3
    /\ PieceAt(pieces, 1, 1).shape.right = -1
    /\ ~game.rnd[RightDraw(1, 1, 3, 3)]
    /\ PieceAt(pieces, 1, 1).shape.top = -1
    /\ game.rnd[BottomDraw(0, 1, 3, 3)]
    /\ PieceAt(pieces, 1, 1).shape.left # 0
    /\ PieceAt(pieces, 1, 1).shape.bottom # 0


---------------------------------------------------------------------------
(* What play leaves alone *)

\* the fields of a piece that are set at generation
Generated(p) ==
    [id |-> p.id, row |-> p.row, col |-> p.col, shape |-> p.shape,
     width |-> p.width, height |-> p.height, solvedPos |-> p.solvedPos]

\* C35: no play operation (pointer-down, pointer-move, release with its merge
\* and win evaluation, detach) changes the id, row, col, shape, width, height
\* or solvedPos of a piece, and none adds or removes a piece; so the sides of
\* grid neighbours stay complementary, and the border sides Flat, in every
\* state of a game.
C35_GeneratedFieldsFrozen ==
    /\ [][/\ Len(pieces') = Len(pieces)
          /\ \A i \in DOMAIN pieces : Generated(pieces'[i]) = Generated(pieces[i])]_vars
    /\ [](/\ OnePiecePerCell(pieces, game.rows, game.cols)
          /\ GridNeighboursComplementary(pieces)
          /\ BorderSidesFlat(pieces, game.rows, game.cols))

\* a game in which a group has been moved, a piece has been detached, and a
\* release has just merged two groups into the assembled puzzle
C35_Witness ==
    /\ moves = MaxMoves
    /\ detaches = MaxDetaches
    /\ last.outcome = "won"


---------------------------------------------------------------------------
(* The bounding-box check lets every true hit through *)

\* the end points and control points of the commands of a contour
ContourPoints(cmds) ==
    UNION {{cmds[k].pts[n] : n \in DOMAIN cmds[k].pts} : k \in DOMAIN cmds}

\* pt (hundredths of a pixel) is at most margin (hundredths) out of the box
\* of w by h pixels
WithinMargin(pt, w, h, margin) ==
    /\ -margin <= pt.x /\ pt.x <= Hundredth * w + margin
    /\ -margin <= pt.y /\ pt.y <= Hundredth * h + margin

\* the piece of the contour, lying at the origin of the board
PathPiece == [currentPos |-> Point(0, 0), width |-> path.width, height |-> path.height]

\* the step of the lattice of points probed around a piece, in pixels
ProbeStep == 10

\* the points of the lattice that the bounding-box check rejects
RejectedProbes ==
    {pt \in {Point(ProbeStep * i, ProbeStep * j) :
                i \in -2..((path.width \div ProbeStep) + 2),
                j \in -2..((path.height \div ProbeStep) + 2)} :
        ~InInflatedBox(PathPiece, path.tabSize, pt.x, pt.y)}

\* C36: the bounding-box check of the hit tester rejects no true hit: for
\* every shape all end points and control points of the contour lie inside
\* the box inflated by 1.5 tab sizes, none being more than 1.2 tab sizes out
\* of the box and a Tab reaching exactly that far, so that no point the check
\* rejects is inside the contour.
C36_PrefilterKeepsHits ==
    path.drawn =>
        /\ \A pt \in ContourPoints(path.cmds) :
            /\ WithinMargin(pt, path.width, path.height, 150 * path.tabSize)
            /\ WithinMargin(pt, path.width, path.height, 120 * path.tabSize)
        /\ (\E s \in {path.shape.top, path.shape.right,
                      path.shape.bottom, path.shape.left} : s = 1)
               => \E pt \in ContourPoints(path.cmds) :
                      ~WithinMargin(pt, path.width, path.height,
                                    120 * path.tabSize - 1)
        /\ \A pt \in RejectedProbes :
               ~isPointInPath(path.cmds, pt.x, pt.y)

\* the contour of a piece with a Tab on top and a Slot on the right has been
\* drawn with a tab size of 10: a control point lies 12 px above the box, and
\* the probe 20 px above the middle of the top side is rejected
C36_Witness ==
    /\ path.drawn
    /\ path.tabSize = 10
    /\ path.shape.top = 1
    /\ path.shape.right = -1
    /\ \E pt \in ContourPoints(path.cmds) : pt.y = -120 * path.tabSize
    /\ Point(ProbeStep * (path.width \div (2 * ProbeStep)), -20) \in RejectedProbes


---------------------------------------------------------------------------
(* Contours of neighbours fit *)

\* the end points and control points of the commands from..to of a contour,
\* in the order they are issued
RECURSIVE PointsOf(_, _, _)
PointsOf(cmds, from, to) ==
    IF from > to THEN << >>
    ELSE cmds[from].pts \o PointsOf(cmds, from + 1, to)

\* side s of the contour of a piece of the given shape: the point at which
\* the pen is when the side begins, then the points of its commands
SidePoints(cmds, shape, s) ==
    LET before == SideStart(shape, s)
        pen    == cmds[before].pts[Len(cmds[before].pts)]
    IN  <<pen>> \o PointsOf(cmds, before + 1,
                            before + SideLength(SideEdge(shape, s)))

\* the points moved by (dx, dy) pixels
Shifted(pts, dx, dy) ==
    [n \in DOMAIN pts |-> Point(pts[n].x + Hundredth * dx, pts[n].y + Hundredth * dy)]

\* the shapes whose side s is the complement of edge e
ShapesFacing(s, e) ==
    {q \in [top : EdgeTypes, right : EdgeTypes, bottom : EdgeTypes, left : EdgeTypes] :
        SideEdge(q, s) + e = 0}

\* C37: the contours of grid neighbours fit without gap or overlap: with a
\* piece whose facing side is complementary lying flush to the right or
\* below, the end points and control points of the shared side of the one
\* are those of the facing side of the other in reverse order.
C37_NeighbourContoursFit ==
    path.drawn =>
        /\ \A q \in ShapesFacing(4, path.shape.right) :
            SidePoints(path.cmds, path.shape, 2)
                = Reverse(Shifted(SidePoints(renderPiecePath(path.width, path.height,
                                                             q, path.tabSize), q, 4),
                                  path.width, 0))
        /\ \A q \in ShapesFacing(1, path.shape.bottom) :
            SidePoints(path.cmds, path.shape, 3)
                = Reverse(Shifted(SidePoints(renderPiecePath(path.width, path.height,
                                                             q, path.tabSize), q, 1),
                                  0, path.height))

\* the contour of a 40 x 30 piece with a Tab on the right and a Slot below
\* has been drawn with a tab size of 10; its right side has twelve points,
\* the corner it starts at included, and the dome lies right of the rectangle
C37_Witness ==
    /\ path.drawn
    /\ path.width = 40 /\ path.height = 30 /\ path.tabSize = 10
    /\ path.shape.right = 1 /\ path.shape.bottom = -1
    /\ Len(SidePoints(path.cmds, path.shape, 2)) = 12
    /\ SidePoints(path.cmds, path.shape, 2)[6].x > Hundredth * path.width


---------------------------------------------------------------------------
(* Stroke of the unconnected sides *)

\* the segments a stroke of the commands draws: every lineTo and
\* bezierCurveTo, from the point at which the pen is when it is issued
RECURSIVE StrokesFrom(_, _)
StrokesFrom(cmds, k) ==
    IF k > Len(cmds) THEN << >>
    ELSE (IF cmds[k].type \in {"L", "C"}
            THEN <<[from |-> cmds[k - 1].pts[Len(cmds[k - 1].pts)],
                    type |-> cmds[k].type, pts |-> cmds[k].pts]>>
            ELSE << >>)
         \o StrokesFrom(cmds, k + 1)

Strokes(cmds) == StrokesFrom(cmds, 2)

ConnectedAt(connected, s) ==
    <<connected.top, connected.right, connected.bottom, connected.left>>[s]

\* side s of the piece drawn in full: the commands of side s of the contour,
\* the pen starting at the corner at which side s starts
SideInFull(p, s) ==
    LET full == renderPiecePath(p.width, p.height, p.shape, p.tabSize)
    IN  Strokes(<<MoveTo(Pixels(SideCorner(p.width, p.height, s).x,
                                SideCorner(p.width, p.height, s).y))>>
                \o SubSeq(full, SideStart(p.shape, s) + 1,
                          SideStart(p.shape, s) + SideLength(SideEdge(p.shape, s))))

\* what is to be drawn of side s
SideToDraw(p, s) == IF ConnectedAt(p.connected, s) THEN << >> ELSE SideInFull(p, s)

\* the segment runs along the line of side s
AlongLineOf(seg, w, h, s) ==
    /\ OutOfSide(seg.from, w, h, s) = 0
    /\ \A n \in DOMAIN seg.pts : OutOfSide(seg.pts[n], w, h, s) = 0

\* the number of segments drawn before those of side s
DrawnBefore(p, s) ==
    (IF s > 1 /\ ~p.connected.top THEN SideLength(p.shape.top) ELSE 0)
      + (IF s > 2 /\ ~p.connected.right THEN SideLength(p.shape.right) ELSE 0)
      + (IF s > 3 /\ ~p.connected.bottom THEN SideLength(p.shape.bottom) ELSE 0)

\* the point at which a segment ends
EndOf(seg) == seg.pts[Len(seg.pts)]

\* C38: the partial stroke draws no segment along a side flagged as
\* connected and every unconnected side in full: the segments drawn are those
\* of the unconnected sides in the order top, right, bottom, left, and the
\* segments of an unconnected side run from the corner at which the side
\* starts to the corner at which it ends, whichever other sides were skipped.
C38_UnconnectedSidesStrokedInFull ==
    path.drawn =>
        LET drawn == Strokes(path.cmds)
            w     == path.width
            h     == path.height
        IN  /\ drawn = SideToDraw(path, 1) \o SideToDraw(path, 2)
                         \o SideToDraw(path, 3) \o SideToDraw(path, 4)
            /\ \A s \in 1..4 :
                IF ConnectedAt(path.connected, s)
                    THEN \A k \in DOMAIN drawn : ~AlongLineOf(drawn[k], w, h, s)
                    ELSE LET first == DrawnBefore(path, s) + 1
                             final == DrawnBefore(path, s)
                                        + SideLength(SideEdge(path.shape, s))
                         IN  /\ final <= Len(drawn)
                             /\ drawn[first].from
                                    = Pixels(SideCorner(w, h, s).x, SideCorner(w, h, s).y)
                             /\ EndOf(drawn[final])
                                    = Pixels(SideCorner(w, h, (s % 4) + 1).x,
                                             SideCorner(w, h, (s % 4) + 1).y)
                             /\ \A k \in first..(final - 1) :
                                    drawn[k + 1].from = EndOf(drawn[k])

\* the border of a 40 x 30 piece has been stroked with its top and bottom
\* sides connected: two moves without a draw, and the ten segments of a Tab
\* on the right and a Slot on the left
C38_Witness ==
    /\ path.drawn
    /\ path.width = 40 /\ path.height = 30 /\ path.tabSize = 10
    /\ path.connected = [top |-> TRUE, right |-> FALSE, bottom |-> TRUE, left |-> FALSE]
    /\ path.shape.right = 1 /\ path.shape.left = -1
    /\ Len(Strokes(path.cmds)) = 10
    /\ Cardinality({k \in DOMAIN path.cmds : path.cmds[k].type = "M"}) = 3
    /\ path.cmds[Len(path.cmds)].type = "S"

=============================================================================
